---- MODULE Spec2Model ----
(***************************************************************************)
(* Resume-scanner scoring pipeline: AIProcessor (app/utils.py), the        *)
(* preprocessor (app/utils.py) and AIService (app/services/__init__.py).   *)
(*                                                                         *)
(* Texts are sequences of tokens.  A resume/job-description token stands   *)
(* for a run of characters of a fixed width, so that len() and strip()     *)
(* are computed, and the 100/50 character thresholds are the program's.    *)
(* A model response is a sequence of JSON-level tokens, parsed the way     *)
(* json.loads parses the characters they stand for.                        *)
(***************************************************************************)
EXTENDS Integers, Sequences, FiniteSets, TLC

VARIABLES
    pc,        \* position of the running entry point: "idle", a step label, "done"
    entry,     \* the function that was called from outside
    text,      \* its text argument
    role,      \* its job_role argument
    job_id,    \* its job_id argument (0: none)
    jd,        \* the job description handed to the match
    cleaned,   \* preprocessed_data['cleaned_text']
    analysis,  \* the record analyze_resume returned
    calls,     \* the external model calls issued so far: <<[site, text]>>
    log,       \* the engine invocations so far: <<[fn, args, outcome, ret, calls, path]>>
    ret,       \* the value returned by the entry point
    score,     \* the ranking score returned with it
    path,      \* the return statement taken
    raised,    \* an exception left the entry point
    faults,    \* the failures met on the way (ghost)
    wrap,      \* how a wrapped reply was put together: [pre, body, post] (ghost)
    files,     \* the working directory: file name -> what was last written to it
    runs,      \* the pipeline run of each worker: [pc, text, ..., wrote, seen]
    db,        \* the ProcessedResume rows: resume id -> row
    resumes    \* the Resume rows: resume id -> row

vars == <<pc, entry, text, role, job_id, jd, cleaned, analysis, calls, log,
          ret, score, path, raised, faults, wrap, files, runs, db, resumes, resumes>>

(***************************************************************************)
(* Bounds of the model.                                                    *)
(***************************************************************************)
MaxTextLen == 2
MaxJdLen == 2
MaxWrap == 1
MaxScanLen == 3
MaxPages == 2
MaxParas == 2
MaxSkills == 4
MaxExperience == 3
MaxEducation == 2
MaxRows == 3

(***************************************************************************)
(* Strings the code inspects character by character are sequences of       *)
(* one-character strings.  A token of a text stands for the characters     *)
(* TokChars gives; a filler token ("b49", "b50", "b99") is a run of        *)
(* characters that are neither letters nor whitespace and is one opaque    *)
(* element here, its length being Width.                                   *)
(***************************************************************************)
UpperLetters == <<"A", "B", "C", "D", "E", "F", "G", "H", "I", "J", "K", "L", "M",
                  "N", "O", "P", "Q", "R", "S", "T", "U", "V", "W", "X", "Y", "Z">>
LowerLetters == <<"a", "b", "c", "d", "e", "f", "g", "h", "i", "j", "k", "l", "m",
                  "n", "o", "p", "q", "r", "s", "t", "u", "v", "w", "x", "y", "z">>

LetterIndex ==
    [c \in {UpperLetters[i] : i \in 1..26} \cup {LowerLetters[i] : i \in 1..26} |->
        CHOOSE i \in 1..26 : UpperLetters[i] = c \/ LowerLetters[i] = c]

\* str.lower() of one character
LowerChar(c) == IF c \in DOMAIN LetterIndex THEN LowerLetters[LetterIndex[c]] ELSE c

\* str.upper() of one character
UpperChar(c) == IF c \in DOMAIN LetterIndex THEN UpperLetters[LetterIndex[c]] ELSE c

\* str.lower()
StrLower(cs) == [i \in 1..Len(cs) |-> LowerChar(cs[i])]

\* str.capitalize(): first character upper-cased, the rest lower-cased
Capitalize(cs) == [i \in 1..Len(cs) |-> IF i = 1 THEN UpperChar(cs[i]) ELSE LowerChar(cs[i])]

\* `needle in hay`
IsSubstr(needle, hay) ==
    \/ needle = <<>>
    \/ \E i \in 1..(Len(hay) - Len(needle) + 1) :
          /\ hay[i] = needle[1]
          /\ SubSeq(hay, i, i + Len(needle) - 1) = needle

IsSpaceChar(c) == c \in {" ", "\n"}

RECURSIVE CharLStrip(_)
CharLStrip(cs) == IF cs # <<>> /\ IsSpaceChar(Head(cs)) THEN CharLStrip(Tail(cs)) ELSE cs

RECURSIVE CharRStrip(_)
CharRStrip(cs) ==
    IF cs # <<>> /\ IsSpaceChar(cs[Len(cs)]) THEN CharRStrip(SubSeq(cs, 1, Len(cs) - 1)) ELSE cs

\* str.strip() of a string of characters
CharStrip(cs) == CharRStrip(CharLStrip(cs))

\* hay.find(needle) + 1: the start of the first occurrence, 0 if none
IndexOf(needle, hay) ==
    IF IsSubstr(needle, hay)
    THEN CHOOSE i \in 1..(Len(hay) - Len(needle) + 1) :
            /\ SubSeq(hay, i, i + Len(needle) - 1) = needle
            /\ \A j \in 1..(i - 1) : SubSeq(hay, j, j + Len(needle) - 1) # needle
    ELSE 0

\* the words a resume text is built from
WordTokens == {"Python", "JAVASCRIPT", "NoSQL", "HTML/CSS", "chronic", "project", "management"}

\* the characters of a token
TokChars(tok) ==
    CASE tok = "sp" -> <<" ">>
      [] tok = "nl" -> <<"\n">>
      [] tok = "bar" -> <<" ", "|", " ">>
      [] tok = "ERR" -> <<"E", "R", "R", "O", "R", " ", "E", "X", "T", "R", "A", "C", "T", "I", "N", "G", " ", "T", "E", "X", "T", ":">>
      [] tok = "ERRc" -> <<"E", "R", "R", "O", "R", " ", "E", "X", "T", "R", "A", "C", "T", "I", "N", "G", " ", "T", "E", "X", "T">>
      [] tok = "Python" -> <<"P", "y", "t", "h", "o", "n">>
      [] tok = "JAVASCRIPT" -> <<"J", "A", "V", "A", "S", "C", "R", "I", "P", "T">>
      [] tok = "NoSQL" -> <<"N", "o", "S", "Q", "L">>
      [] tok = "HTML/CSS" -> <<"H", "T", "M", "L", "/", "C", "S", "S">>
      [] tok = "chronic" -> <<"c", "h", "r", "o", "n", "i", "c">>
      [] tok = "project" -> <<"p", "r", "o", "j", "e", "c", "t">>
      [] tok = "management" -> <<"m", "a", "n", "a", "g", "e", "m", "e", "n", "t">>
      [] tok = "Education" -> <<"E", "d", "u", "c", "a", "t", "i", "o", "n">>
      [] tok = "SKILLS" -> <<"S", "K", "I", "L", "L", "S">>
      [] tok = "tech5" -> <<"P", "y", "t", "h", "o", "n", " ", "J", "a", "v", "a", "S", "c", "r", "i", "p", "t", " ", "s", "o", "f", "t", "w", "a", "r", "e", " ", "d", "e", "v", "e", "l", "o", "p", "e", "r", " ">>
      [] tok = "data5" -> <<"D", "a", "t", "a", " ", "a", "n", "a", "l", "y", "t", "i", "c", "s", " ", "s", "t", "a", "t", "i", "s", "t", "i", "c", "s", " ", "m", "o", "d", "e", "l", " ", "p", "r", "e", "d", "i", "c", "t", "i", "o", "n", " ">>
      [] tok = "code" -> <<"c", "o", "d", "e", " ">>
      [] tok = "both" -> <<"c", "o", "d", "e", " ", "A", "I", " ">>
      [] tok = "JobTitle:" -> <<"J", "o", "b", " ", "T", "i", "t", "l", "e", ":">>
      [] tok = "DataSci" -> <<" ", "D", "a", "t", "a", " ", "S", "c", "i", "e", "n", "c", "e", " ">>
      [] tok = "softdev" -> <<"s", "e", "n", "i", "o", "r", " ", "s", "o", "f", "t", "w", "a", "r", "e", " ", "d", "e", "v", "e", "l", "o", "p", "m", "e", "n", "t", " ", "l", "e", "a", "d">>
      [] OTHER -> <<tok>>

RECURSIVE TextChars(_)
TextChars(s) == IF s = <<>> THEN <<>> ELSE TokChars(Head(s)) \o TextChars(Tail(s))

(***************************************************************************)
(* Resume / job-description text.                                          *)
(*   "sp"  one whitespace character                                        *)
(*   "b49", "b50", "b99"  49, 50 and 99 non-whitespace characters          *)
(*   "ERR" the sentinel prefix "ERROR EXTRACTING TEXT:" (22 characters)    *)
(*   "ERRc" the same words once the basic cleaning has blanked the colon   *)
(*   "posting_labels" the fixed labels of a posting's job description      *)
(*          ("Job Title: ", "Department: ", ... : 71 characters)           *)
(*   "role_template" the generic job description written around a role     *)
(*          (some 400 characters whatever the role)                        *)
(***************************************************************************)
TextTokens == {"sp", "b50", "b99", "ERR"}

Width(tok) ==
    CASE tok = "sp" -> 1
      [] tok = "b49" -> 49
      [] tok = "b50" -> 50
      [] tok = "b99" -> 99
      [] tok = "ERR" -> 22
      [] tok = "ERRc" -> 21
      [] tok = "posting_labels" -> 71
      [] tok = "role_template" -> 400
      [] OTHER -> Len(TokChars(tok))

IsSpace(tok) == tok \in {"sp", "nl"}

SeqsUpTo(S, n) == UNION {[1..k -> S] : k \in 0..n}

Texts == SeqsUpTo(TextTokens, MaxTextLen)

RECURSIVE PyLen(_)
PyLen(s) == IF s = <<>> THEN 0 ELSE Width(Head(s)) + PyLen(Tail(s))

RECURSIVE LStrip(_)
LStrip(s) == IF s # <<>> /\ IsSpace(Head(s)) THEN LStrip(Tail(s)) ELSE s

RECURSIVE RStrip(_)
RStrip(s) ==
    IF s # <<>> /\ IsSpace(s[Len(s)]) THEN RStrip(SubSeq(s, 1, Len(s) - 1)) ELSE s

Strip(s) == RStrip(LStrip(s))

StartsWithSentinel(s) == s # <<>> /\ s[1] = "ERR"



(***************************************************************************)
(* Python values.  A dict is a TLA+ record (a function on its keys); the   *)
(* other JSON values are tagged so that a dict is told from them.          *)
(***************************************************************************)
PyList(items) == [list_items |-> items]
PyNum(n) == [num_value |-> n]
PyStr(x) == [str_value |-> x]
PyNone == [none_value |-> TRUE]
JSONDecodeError == [decode_error |-> TRUE]
TypeError == [type_error |-> TRUE]
EmptyDict == [k \in {} |-> 0]

NonDictTags ==
    {"list_items", "num_value", "str_value", "decode_error", "type_error", "none_value",
     "re_error"}

IsDict(v) == DOMAIN v \cap NonDictTags = {}
IsList(v) == "list_items" \in DOMAIN v
IsDecodeError(v) == "decode_error" \in DOMAIN v
IsTypeError(v) == "type_error" \in DOMAIN v

\* {**a, **b}: the keys of both, b's value wherever b has the key
Merge(a, b) == [k \in DOMAIN a \cup DOMAIN b |-> IF k \in DOMAIN b THEN b[k] ELSE a[k]]

\* d[k] = x on a dict
SetKey(d, k, x) == [j \in DOMAIN d \cup {k} |-> IF j = k THEN x ELSE d[j]]

(***************************************************************************)
(* Model responses.  Tokens of a response text:                            *)
(*   "{" "}" "[" "]"  the JSON punctuation characters                      *)
(*   "f_*"   one object member  "key": value  (separating commas implied)  *)
(*   "s_*"   a JSON string literal                                         *)
(*   "n"     a JSON number literal                                         *)
(*   "w"     prose without braces, "fence" a markdown fence marker,        *)
(*   "nl"    whitespace                                                    *)
(***************************************************************************)
MatchFieldTokens == {"f_oms", "f_sm", "f_er", "f_ed", "f_sum"}
AnalysisFieldTokens == {"f_name", "f_skills", "f_exp", "f_edu", "f_asum"}
\* members whose level, duration or degree is null
NullFieldTokens == {"f_nskills", "f_nexp", "f_nedu"}
\* "contact_info": {"email": ...} and "contact_info": null
ContactFieldTokens == {"f_contact", "f_ncontact"}
FieldTokens ==
    MatchFieldTokens \cup AnalysisFieldTokens \cup NullFieldTokens \cup ContactFieldTokens
StrTokens == {"s_oms", "s_sm", "s_er", "s_ed"}

FieldKey(tok) ==
    CASE tok = "f_oms" -> "overall_match_score"
      [] tok = "f_sm" -> "skills_match"
      [] tok = "f_er" -> "experience_relevance"
      [] tok = "f_ed" -> "education_relevance"
      [] tok = "f_sum" -> "summary"
      [] tok = "f_name" -> "candidate_name"
      [] tok = "f_skills" -> "skills"
      [] tok = "f_exp" -> "experience"
      [] tok = "f_edu" -> "education"
      [] tok = "f_asum" -> "summary"
      [] tok = "f_nskills" -> "skills"
      [] tok = "f_nexp" -> "experience"
      [] tok = "f_nedu" -> "education"
      [] tok = "f_contact" -> "contact_info"
      [] tok = "f_ncontact" -> "contact_info"

FieldVal(tok) ==
    CASE tok = "f_oms" -> 85
      [] tok = "f_sm" -> <<[skill |-> "Python", match_percentage |-> 90, level |-> "Advanced"]>>
      [] tok = "f_er" -> 80
      [] tok = "f_ed" -> 90
      [] tok = "f_sum" -> "model match summary"
      [] tok = "f_name" -> "Jane Doe"
      [] tok = "f_skills" -> <<[name |-> "Python", level |-> PyStr(<<"A", "d", "v", "a", "n", "c", "e", "d">>)]>>
      [] tok = "f_exp" -> <<[title |-> "Engineer", duration |-> PyStr(<<"3", " ", "y", "e", "a", "r", "s">>)]>>
      [] tok = "f_edu" -> <<[degree |-> PyStr(<<"B", "a", "c", "h", "e", "l", "o", "r", " ", "o", "f", " ", "S", "c", "i", "e", "n", "c", "e">>)]>>
      [] tok = "f_asum" -> "model resume summary"
      [] tok = "f_nskills" -> <<[name |-> "Python", level |-> PyNone]>>
      [] tok = "f_nexp" -> <<[title |-> "Engineer", duration |-> PyNone]>>
      [] tok = "f_nedu" -> <<[degree |-> PyNone]>>
      [] tok = "f_contact" -> [email |-> "jane@example.com"]
      [] tok = "f_ncontact" -> PyNone

StrText(tok) ==
    CASE tok = "s_oms" -> "overall_match_score"
      [] tok = "s_sm" -> "skills_match"
      [] tok = "s_er" -> "experience_relevance"
      [] tok = "s_ed" -> "education_relevance"

\* str.find('{') and str.rfind('}'), as 1-based positions, 0 when absent
Find(s, tok) ==
    IF \E i \in 1..Len(s) : s[i] = tok
    THEN CHOOSE i \in 1..Len(s) : s[i] = tok /\ \A j \in 1..(i - 1) : s[j] # tok
    ELSE 0

RFind(s, tok) ==
    IF \E i \in 1..Len(s) : s[i] = tok
    THEN CHOOSE i \in 1..Len(s) : s[i] = tok /\ \A j \in (i + 1)..Len(s) : s[j] # tok
    ELSE 0

\* the dict of the members s[i..j]; a repeated key keeps its last value
MembersDict(s, i, j) ==
    [k \in {FieldKey(s[m]) : m \in i..j} |->
        FieldVal(s[CHOOSE m \in i..j :
                     FieldKey(s[m]) = k /\ \A m2 \in (m + 1)..j : FieldKey(s[m2]) # k])]

\* first position at or after i that holds no object member
RECURSIVE MembersEnd(_, _)
MembersEnd(s, i) ==
    IF i <= Len(s) /\ s[i] \in FieldTokens THEN MembersEnd(s, i + 1) ELSE i

\* json.loads: one value at position i; [ok, val, next]
RECURSIVE ParseValue(_, _)
RECURSIVE ParseItems(_, _, _)
ParseValue(s, i) ==
    IF i > Len(s) THEN [ok |-> FALSE, val |-> JSONDecodeError, next |-> i]
    ELSE IF s[i] = "n" THEN [ok |-> TRUE, val |-> PyNum(1), next |-> i + 1]
    ELSE IF s[i] \in StrTokens THEN [ok |-> TRUE, val |-> PyStr(StrText(s[i])), next |-> i + 1]
    ELSE IF s[i] = "{" THEN
        LET j == MembersEnd(s, i + 1) IN
        IF j <= Len(s) /\ s[j] = "}"
        THEN [ok |-> TRUE, val |-> MembersDict(s, i + 1, j - 1), next |-> j + 1]
        ELSE [ok |-> FALSE, val |-> JSONDecodeError, next |-> j]
    ELSE IF s[i] = "[" THEN ParseItems(s, i + 1, <<>>)
    ELSE [ok |-> FALSE, val |-> JSONDecodeError, next |-> i]

ParseItems(s, i, acc) ==
    IF i > Len(s) THEN [ok |-> FALSE, val |-> JSONDecodeError, next |-> i]
    ELSE IF s[i] = "]" THEN [ok |-> TRUE, val |-> PyList(acc), next |-> i + 1]
    ELSE LET v == ParseValue(s, i) IN
         IF v.ok THEN ParseItems(s, v.next, Append(acc, v.val)) ELSE v

\* json.loads(s): surrounding whitespace is skipped, anything else after the
\* value is "Extra data"
JsonLoads(s) ==
    LET t == Strip(s)
        v == ParseValue(t, 1)
    IN IF v.ok /\ v.next = Len(t) + 1 THEN v.val ELSE JSONDecodeError

\* mutant: the whole reply is parsed when the parse of the slice fails
ExtractJsonBothAttempts(analysis_text) ==
    LET json_start == Find(analysis_text, "{")
        json_end == RFind(analysis_text, "}")
        sliced == JsonLoads(SubSeq(analysis_text, json_start, json_end))
    IN IF json_start >= 1 /\ json_end >= json_start /\ ~IsDecodeError(sliced)
       THEN sliced
       ELSE JsonLoads(analysis_text)

\* mutant: the whole reply is parsed, no brace extraction
ExtractJsonWhole(analysis_text) == JsonLoads(analysis_text)

\* the tolerant parse of generate_job_description_match and analyze_resume
ExtractJson(analysis_text) ==
    LET json_start == Find(analysis_text, "{")
        json_end == RFind(analysis_text, "}")
    IN IF json_start >= 1 /\ json_end >= json_start
       THEN JsonLoads(SubSeq(analysis_text, json_start, json_end))
       ELSE JsonLoads(analysis_text)

\* `key in value`
PyContains(v, k) ==
    IF IsDict(v) THEN k \in DOMAIN v
    ELSE IF IsList(v) THEN \E i \in 1..Len(v.list_items) : v.list_items[i] = PyStr(k)
    ELSE IF "str_value" \in DOMAIN v THEN v.str_value = k
    ELSE FALSE

\* `key in value` raises TypeError on a number
ContainsRaises(v) == "num_value" \in DOMAIN v

RequiredFields == <<"overall_match_score", "skills_match", "experience_relevance",
                    "education_relevance">>

\* mutant: a missing number is filled with the fallback's mid-range score
NeutralDefaultMidRange(k) == IF k = "skills_match" THEN <<>> ELSE 50

NeutralDefault(k) == IF k = "skills_match" THEN <<>> ELSE 0

\* the four `if k not in match_data: match_data[k] = default` statements, in order
RECURSIVE Backfill(_, _)
Backfill(match_data, i) ==
    IF i > Len(RequiredFields) THEN match_data
    ELSE LET k == RequiredFields[i] IN
         IF ContainsRaises(match_data) THEN TypeError
         ELSE IF PyContains(match_data, k) THEN Backfill(match_data, i + 1)
         ELSE IF IsDict(match_data)
              THEN Backfill(SetKey(match_data, k, NeutralDefault(k)), i + 1)
              ELSE TypeError

(***************************************************************************)
(* AIProcessor (app/utils.py).  An outcome of the external model call is   *)
(* [kind |-> "raise"] (network, auth or rate-limit error) or               *)
(* [kind |-> "reply", content |-> response text].  Every engine function   *)
(* returns [ret, calls, path]: the returned value, the model calls it      *)
(* issued (call site and text sent), and the return statement taken.       *)
(***************************************************************************)
MinResumeChars == 100
MinJobDescChars == 50

Raise == [kind |-> "raise", content |-> <<>>]
NoOutcome == [kind |-> "none", content |-> <<>>]
Reply(content) == [kind |-> "reply", content |-> content]

Call(site, sent) == [site |-> site, text |-> sent]

ErrorMatch(msg, summary) ==
    [error |-> msg,
     overall_match_score |-> 0,
     skills_match |-> <<>>,
     experience_relevance |-> 0,
     education_relevance |-> 0,
     strengths |-> <<>>,
     weaknesses |-> <<>>,
     recommendations |-> <<>>,
     summary |-> summary]

\* the vocabulary scanned by the fallback
common_skills ==
    <<<<"p", "y", "t", "h", "o", "n">>,
      <<"j", "a", "v", "a">>,
      <<"j", "a", "v", "a", "s", "c", "r", "i", "p", "t">>,
      <<"h", "t", "m", "l">>,
      <<"c", "s", "s">>,
      <<"r", "e", "a", "c", "t">>,
      <<"a", "n", "g", "u", "l", "a", "r">>,
      <<"n", "o", "d", "e">>,
      <<"s", "q", "l">>,
      <<"n", "o", "s", "q", "l">>,
      <<"m", "o", "n", "g", "o", "d", "b">>,
      <<"a", "w", "s">>,
      <<"a", "z", "u", "r", "e">>,
      <<"d", "o", "c", "k", "e", "r">>,
      <<"k", "u", "b", "e", "r", "n", "e", "t", "e", "s">>,
      <<"c", "i", "/", "c", "d">>,
      <<"a", "g", "i", "l", "e">>,
      <<"s", "c", "r", "u", "m">>,
      <<"p", "r", "o", "j", "e", "c", "t", " ", "m", "a", "n", "a", "g", "e", "m", "e", "n", "t">>,
      <<"l", "e", "a", "d", "e", "r", "s", "h", "i", "p">>,
      <<"c", "o", "m", "m", "u", "n", "i", "c", "a", "t", "i", "o", "n">>,
      <<"t", "e", "a", "m", "w", "o", "r", "k">>,
      <<"p", "r", "o", "b", "l", "e", "m", " ", "s", "o", "l", "v", "i", "n", "g">>,
      <<"c", "r", "i", "t", "i", "c", "a", "l", " ", "t", "h", "i", "n", "k", "i", "n", "g">>,
      <<"t", "i", "m", "e", " ", "m", "a", "n", "a", "g", "e", "m", "e", "n", "t">>,
      <<"c", "u", "s", "t", "o", "m", "e", "r", " ", "s", "e", "r", "v", "i", "c", "e">>,
      <<"s", "a", "l", "e", "s">>,
      <<"m", "a", "r", "k", "e", "t", "i", "n", "g">>,
      <<"f", "i", "n", "a", "n", "c", "e">>,
      <<"a", "c", "c", "o", "u", "n", "t", "i", "n", "g">>,
      <<"h", "r">>,
      <<"h", "u", "m", "a", "n", " ", "r", "e", "s", "o", "u", "r", "c", "e", "s">>>>

\* mutant: the resume text is searched as written, not lower-cased
TextContainsCaseSensitive(resume_text, skill) ==
    IsSubstr(StrLower(skill), TextChars(resume_text))

\* `skill.lower() in resume_text.lower()`
TextContains(resume_text, skill) ==
    IsSubstr(StrLower(skill), StrLower(TextChars(resume_text)))

FoundSkill(skill) ==
    [skill |-> Capitalize(skill), match_percentage |-> 70, level |-> "Intermediate"]

RECURSIVE FoundSkills(_, _)
FoundSkills(resume_text, i) ==
    IF i > Len(common_skills) THEN <<>>
    ELSE IF TextContains(resume_text, common_skills[i])
         THEN <<FoundSkill(common_skills[i])>> \o FoundSkills(resume_text, i + 1)
         ELSE FoundSkills(resume_text, i + 1)

(* The role-alignment heuristic of the fallback.  A count is the number of  *)
(* keywords of the bucket that occur in the lower-cased resume text.        *)
tech_keywords ==
    << <<"p", "y", "t", "h", "o", "n">>,
       <<"j", "a", "v", "a">>,
       <<"j", "a", "v", "a", "s", "c", "r", "i", "p", "t">>,
       <<"p", "r", "o", "g", "r", "a", "m", "m", "i", "n", "g">>,
       <<"d", "e", "v", "e", "l", "o", "p", "e", "r">>,
       <<"s", "o", "f", "t", "w", "a", "r", "e">>,
       <<"c", "o", "d", "e">>,
       <<"a", "l", "g", "o", "r", "i", "t", "h", "m">>,
       <<"d", "a", "t", "a", " ", "s", "t", "r", "u", "c", "t", "u", "r", "e">> >>

data_keywords ==
    << <<"d", "a", "t", "a">>,
       <<"a", "n", "a", "l", "y", "t", "i", "c", "s">>,
       <<"s", "t", "a", "t", "i", "s", "t", "i", "c", "s">>,
       <<"m", "a", "c", "h", "i", "n", "e", " ", "l", "e", "a", "r", "n", "i", "n", "g">>,
       <<"a", "i">>,
       <<"a", "r", "t", "i", "f", "i", "c", "i", "a", "l", " ", "i", "n", "t", "e", "l", "l", "i", "g", "e", "n", "c", "e">>,
       <<"m", "o", "d", "e", "l">>,
       <<"p", "r", "e", "d", "i", "c", "t", "i", "o", "n">> >>

marketing_keywords ==
    << <<"m", "a", "r", "k", "e", "t", "i", "n", "g">>,
       <<"s", "o", "c", "i", "a", "l", " ", "m", "e", "d", "i", "a">>,
       <<"c", "a", "m", "p", "a", "i", "g", "n">>,
       <<"b", "r", "a", "n", "d">>,
       <<"c", "o", "n", "t", "e", "n", "t">>,
       <<"s", "e", "o">>,
       <<"p", "p", "c">>,
       <<"a", "d", "v", "e", "r", "t", "i", "s", "i", "n", "g">> >>

hr_keywords ==
    << <<"h", "r">>,
       <<"h", "u", "m", "a", "n", " ", "r", "e", "s", "o", "u", "r", "c", "e", "s">>,
       <<"r", "e", "c", "r", "u", "i", "t", "m", "e", "n", "t">>,
       <<"t", "a", "l", "e", "n", "t">>,
       <<"o", "n", "b", "o", "a", "r", "d", "i", "n", "g">>,
       <<"e", "m", "p", "l", "o", "y", "e", "e">>,
       <<"b", "e", "n", "e", "f", "i", "t", "s">>,
       <<"c", "o", "m", "p", "e", "n", "s", "a", "t", "i", "o", "n">> >>

finance_keywords ==
    << <<"f", "i", "n", "a", "n", "c", "e">>,
       <<"a", "c", "c", "o", "u", "n", "t", "i", "n", "g">>,
       <<"b", "u", "d", "g", "e", "t">>,
       <<"f", "i", "n", "a", "n", "c", "i", "a", "l">>,
       <<"t", "a", "x">>,
       <<"a", "u", "d", "i", "t">>,
       <<"i", "n", "v", "e", "s", "t", "m", "e", "n", "t">>,
       <<"r", "e", "v", "e", "n", "u", "e">> >>

\* the dict `counts`, in its insertion order: label and keyword bucket
categories ==
    << [label |-> "Software Development", chars |-> <<"S", "o", "f", "t", "w", "a", "r", "e", " ", "D", "e", "v", "e", "l", "o", "p", "m", "e", "n", "t">>,
        keywords |-> tech_keywords],
       [label |-> "Data Science", chars |-> <<"D", "a", "t", "a", " ", "S", "c", "i", "e", "n", "c", "e">>,
        keywords |-> data_keywords],
       [label |-> "Marketing", chars |-> <<"M", "a", "r", "k", "e", "t", "i", "n", "g">>,
        keywords |-> marketing_keywords],
       [label |-> "Human Resources", chars |-> <<"H", "u", "m", "a", "n", " ", "R", "e", "s", "o", "u", "r", "c", "e", "s">>,
        keywords |-> hr_keywords],
       [label |-> "Finance", chars |-> <<"F", "i", "n", "a", "n", "c", "e">>,
        keywords |-> finance_keywords] >>

JobTitleLabel == <<"J", "o", "b", " ", "T", "i", "t", "l", "e", ":">>

AlignmentThreshold == 5

\* sum(1 for kw in keywords if kw.lower() in resume_text.lower())
KeywordCount(keywords, resume_text) ==
    LET low == StrLower(TextChars(resume_text)) IN
    Cardinality({k \in 1..Len(keywords) : IsSubstr(StrLower(keywords[k]), low)})

\* the values of the dict `counts`, in its insertion order
BucketCounts(resume_text) ==
    << KeywordCount(categories[1].keywords, resume_text),
       KeywordCount(categories[2].keywords, resume_text),
       KeywordCount(categories[3].keywords, resume_text),
       KeywordCount(categories[4].keywords, resume_text),
       KeywordCount(categories[5].keywords, resume_text) >>

\* mutant: of the categories with the largest count the last one is taken
RECURSIVE MaxCategoryLastWins(_, _, _)
MaxCategoryLastWins(counts, i, best) ==
    IF i > Len(counts) THEN best
    ELSE IF counts[i] >= counts[best] THEN MaxCategoryLastWins(counts, i + 1, i)
    ELSE MaxCategoryLastWins(counts, i + 1, best)

\* max(counts, key=counts.get): the scan keeps the first category, in the
\* insertion order of the dict, that no later one exceeds
RECURSIVE MaxCategory(_, _, _)
MaxCategory(counts, i, best) ==
    IF i > Len(counts) THEN best
    ELSE IF counts[i] > counts[best] THEN MaxCategory(counts, i + 1, i)
    ELSE MaxCategory(counts, i + 1, best)

\* job_description.split("Job Title:")[1].split("\n")[0].strip(), or "" when
\* the description has no "Job Title:".  The opaque tokens of a description
\* hold no label here; the texts they come with never reach the threshold,
\* which the code tests first.
JobRoleOf(job_description) ==
    LET cs == TextChars(job_description)
        p == IndexOf(JobTitleLabel, cs)
    IN IF p = 0 THEN <<>>
       ELSE LET rest == SubSeq(cs, p + Len(JobTitleLabel), Len(cs))
                q == IndexOf(JobTitleLabel, rest)
                part == IF q = 0 THEN rest ELSE SubSeq(rest, 1, q - 1)
                n == IndexOf(<<"\n">>, part)
            IN CharStrip(IF n = 0 THEN part ELSE SubSeq(part, 1, n - 1))

NoNote == [noted |-> FALSE, category |-> "", job_role |-> <<>>]

\* the note appended by `if max_count > 5 and job_role and ... not in ...`
RoleAlignmentNote(resume_text, job_description) ==
    LET Note(counts, job_role) ==
            LET max_category == MaxCategory(counts, 2, 1) IN
            IF /\ counts[max_category] > AlignmentThreshold
               /\ job_role # <<>>
               /\ ~IsSubstr(StrLower(categories[max_category].chars), StrLower(job_role))
            THEN [noted |-> TRUE, category |-> categories[max_category].label,
                  job_role |-> job_role]
            ELSE NoNote
    IN CHOOSE note \in {Note(c, r) : c \in {BucketCounts(resume_text)},
                                     r \in {JobRoleOf(job_description)}} : TRUE

\* the summary: the fixed text, then the sentence on the skills found, then
\* the alignment note
FallbackSummary(found_skills, note) ==
    IF found_skills = <<>>
    THEN (IF note.noted THEN "fallback summary with alignment note" ELSE "fallback summary")
    ELSE (IF note.noted THEN "fallback summary with skills and alignment note"
          ELSE "fallback summary with skills")

FallbackSkillCap == 5

Take(s, n) == SubSeq(s, 1, IF Len(s) < n THEN Len(s) ELSE n)

_generate_fallback_analysis(resume_text, job_description, raw_response) ==
    LET found_skills == FoundSkills(resume_text, 1) IN
    [error |-> "Failed to parse AI response",
     raw_analysis |-> raw_response,
     overall_match_score |-> 50,
     skills_match |-> Take(found_skills, FallbackSkillCap),
     experience_relevance |-> 50,
     education_relevance |-> 50,
     strengths |-> <<"Unable to determine strengths due to processing error">>,
     weaknesses |-> <<"Unable to determine weaknesses due to processing error">>,
     recommendations |-> <<"Try reprocessing the resume or check system logs for details">>,
     summary |-> FallbackSummary(found_skills, RoleAlignmentNote(resume_text, job_description))]

ApiErrorMatch == ErrorMatch("OpenAI API error", "Error communicating with AI service")

\* mutant: a decode error is answered like a failed call
MatchOnDecodeErrorZero(resume_text, job_description, analysis_text) ==
    [ret |-> ApiErrorMatch, path |-> "api_error"]

\* the handler of a decode error in generate_job_description_match
MatchOnDecodeError(resume_text, job_description, analysis_text) ==
    [ret |-> _generate_fallback_analysis(resume_text, job_description, analysis_text),
     path |-> "fallback"]

\* mutant: a failed call answers with the mid-range scores
MatchOnApiErrorMidRange ==
    [ret |-> [ApiErrorMatch EXCEPT !.overall_match_score = 50,
                                   !.experience_relevance = 50,
                                   !.education_relevance = 50],
     path |-> "api_error"]

\* the handler `except Exception as api_error`
MatchOnApiError == [ret |-> ApiErrorMatch, path |-> "api_error"]

\* mutant: a failed call is issued once more
MatchModelCallsRetry(resume_text, outcome) ==
    IF outcome.kind = "raise"
    THEN <<Call("match", resume_text), Call("match", resume_text)>>
    ELSE <<Call("match", resume_text)>>

\* the model calls issued by the try block: one create() call, outside any loop
MatchModelCalls(resume_text, outcome) == <<Call("match", resume_text)>>

\* mutant: the length test is dropped, only the empty text is rejected
ResumeTooShortEmptyOnly(resume_text) == resume_text = <<>>

\* `not resume_text or len(resume_text.strip()) < 100`
ResumeTooShort(resume_text) ==
    resume_text = <<>> \/ PyLen(Strip(resume_text)) < MinResumeChars

\* `not job_description or len(job_description.strip()) < 50`
JobDescTooShort(job_description) ==
    job_description = <<>> \/ PyLen(Strip(job_description)) < MinJobDescChars

generate_job_description_match(resume_text, job_description, outcome) ==
    IF ResumeTooShort(resume_text)
    THEN [ret |-> ErrorMatch("Resume text is too short or empty",
                             "Cannot analyze match: resume text is insufficient"),
          calls |-> <<>>, path |-> "short_resume"]
    ELSE IF JobDescTooShort(job_description)
    THEN [ret |-> ErrorMatch("Job description is too short or empty",
                             "Cannot analyze match: job description is insufficient"),
          calls |-> <<>>, path |-> "short_jd"]
    ELSE
      LET issued == MatchModelCalls(resume_text, outcome)
          after ==
            IF outcome.kind = "raise" THEN MatchOnApiError
            ELSE
              LET analysis_text == Strip(outcome.content)
                  match_data == ExtractJson(analysis_text)
              IN IF IsDecodeError(match_data)
                 THEN MatchOnDecodeError(resume_text, job_description, analysis_text)
                 ELSE LET filled == Backfill(match_data, 1) IN
                      IF IsTypeError(filled) THEN MatchOnApiError
                      ELSE [ret |-> filled, path |-> "parsed"]
      IN [ret |-> after.ret, calls |-> issued, path |-> after.path]

(***************************************************************************)
(* Derived scores of analyze_resume.  A number the code rounds to one      *)
(* decimal is held in tenths (87.5 is 875).                                *)
(***************************************************************************)
\* None, and the test for a string; a list is a sequence and is never compared with them
IsStr(v) == "str_value" \in DOMAIN v
IsNone(v) == "none_value" \in DOMAIN v
\* dict.get(k, default)
Get(d, k, default) == IF k \in DOMAIN d THEN d[k] ELSE default

\* the outcome of a step that can raise
Raises == [raises |-> TRUE, value |-> 0]
Value(x) == [raises |-> FALSE, value |-> x]

level_scores(level) ==
    CASE level = <<"b", "e", "g", "i", "n", "n", "e", "r">> -> 25
      [] level = <<"i", "n", "t", "e", "r", "m", "e", "d", "i", "a", "t", "e">> -> 50
      [] level = <<"a", "d", "v", "a", "n", "c", "e", "d">> -> 75
      [] level = <<"e", "x", "p", "e", "r", "t">> -> 100
      [] OTHER -> 50

\* one turn of the loop: skill.get('level', '').lower(), then the table
SkillScore(skill) ==
    IF ~IsDict(skill) THEN Raises
    ELSE LET level == Get(skill, "level", PyStr(<<>>)) IN
         IF ~IsStr(level) THEN Raises
         ELSE Value(level_scores(StrLower(level.str_value)))

RECURSIVE SumLevelScores(_)
SumLevelScores(skills) ==
    IF skills = <<>> THEN Value(0)
    ELSE LET a == SkillScore(Head(skills))
             b == SumLevelScores(Tail(skills))
         IN IF a.raises \/ b.raises THEN Raises ELSE Value(a.value + b.value)

\* round(p / q, 1) in tenths, ties to the even tenth
RoundTenths(p, q) ==
    LET n == (10 * p) \div q
        r == (10 * p) % q
    IN IF 2 * r < q THEN n
       ELSE IF 2 * r > q THEN n + 1
       ELSE IF n % 2 = 0 THEN n ELSE n + 1

\* the technical score in tenths; an exception gives 50
_calculate_technical_score(analysis_data) ==
    IF ~IsDict(analysis_data) THEN 500
    ELSE IF "skills" \notin DOMAIN analysis_data THEN 0
    ELSE LET skills == analysis_data.skills IN
         IF skills = <<>> THEN 0
         ELSE LET total == SumLevelScores(skills) IN
              IF total.raises THEN 500
              ELSE RoundTenths(total.value, Len(skills))

Digits == {"0", "1", "2", "3", "4", "5", "6", "7", "8", "9"}

RECURSIVE DurationDigits(_)
\* ''.join(c for c in duration_str if c.isdigit() or c == '.')
DurationDigits(duration) ==
    IF duration = <<>> THEN <<>>
    ELSE (IF Head(duration) \in Digits \cup {"."} THEN <<Head(duration)>> ELSE <<>>)
         \o DurationDigits(Tail(duration))

DigitValue(c) ==
    CASE c = "0" -> 0 [] c = "1" -> 1 [] c = "2" -> 2 [] c = "3" -> 3 [] c = "4" -> 4
      [] c = "5" -> 5 [] c = "6" -> 6 [] c = "7" -> 7 [] c = "8" -> 8 [] c = "9" -> 9

RECURSIVE DigitsValue(_)
DigitsValue(ds) ==
    IF ds = <<>> THEN 0 ELSE 10 * DigitsValue(SubSeq(ds, 1, Len(ds) - 1)) + DigitValue(ds[Len(ds)])

\* float() of digits and dots, in tenths: at most one dot, at least one
\* digit, else ValueError; the durations modelled have one decimal at most
FloatTenths(cs) ==
    LET dots == {i \in 1..Len(cs) : cs[i] = "."} IN
    IF Cardinality(dots) > 1 \/ Len(cs) = Cardinality(dots)
    THEN [ok |-> FALSE, tenths |-> 0]
    ELSE IF dots = {} THEN [ok |-> TRUE, tenths |-> 10 * DigitsValue(cs)]
    ELSE LET d == CHOOSE i \in dots : TRUE
             frac == SubSeq(cs, d + 1, Len(cs))
         IN [ok |-> TRUE,
             tenths |-> 10 * DigitsValue(SubSeq(cs, 1, d - 1))
                        + (IF frac = <<>> THEN 0 ELSE DigitValue(frac[1]))]

\* one turn of the loop: the years of an entry; a duration that is no
\* string cannot be iterated and raises out of the loop
EntryYears(exp) ==
    IF ~IsDict(exp) THEN Raises
    ELSE LET duration_str == Get(exp, "duration", PyStr(<<"0">>)) IN
         IF ~IsStr(duration_str) THEN Raises
         ELSE LET f == FloatTenths(DurationDigits(duration_str.str_value)) IN
              Value(IF f.ok THEN f.tenths ELSE 0)

RECURSIVE SumDurations(_)
SumDurations(experience) ==
    IF experience = <<>> THEN Value(0)
    ELSE LET a == EntryYears(Head(experience))
             b == SumDurations(Tail(experience))
         IN IF a.raises \/ b.raises THEN Raises ELSE Value(a.value + b.value)

\* the total experience in tenths; an exception gives 0
_calculate_total_experience(analysis_data) ==
    IF ~IsDict(analysis_data) THEN 0
    ELSE IF "experience" \notin DOMAIN analysis_data THEN 0
    ELSE LET experience == analysis_data.experience IN
         IF experience = <<>> THEN 0
         ELSE LET total == SumDurations(experience) IN
              IF total.raises THEN 0 ELSE total.value

\* degree_scores, in the order the dict is iterated
degree_levels ==
    <<<<"h", "i", "g", "h", " ", "s", "c", "h", "o", "o", "l">>,
      <<"a", "s", "s", "o", "c", "i", "a", "t", "e">>,
      <<"b", "a", "c", "h", "e", "l", "o", "r">>,
      <<"m", "a", "s", "t", "e", "r">>,
      <<"p", "h", "d">>,
      <<"d", "o", "c", "t", "o", "r", "a", "t", "e">>>>

degree_scores == <<25, 50, 75, 90, 100, 100>>

\* one turn of the outer loop: the first table keyword found in the
\* lower-cased degree scores the entry (break)
EntryScore(edu) ==
    IF ~IsDict(edu) THEN Raises
    ELSE LET degree == Get(edu, "degree", PyStr(<<>>)) IN
         IF ~IsStr(degree) THEN Raises
         ELSE LET hits == {i \in 1..Len(degree_levels) :
                              IsSubstr(degree_levels[i], StrLower(degree.str_value))}
              IN Value(IF hits = {} THEN 0
                       ELSE degree_scores[CHOOSE i \in hits : \A j \in hits : i <= j])

RECURSIVE MaxEntryScore(_)
MaxEntryScore(education) ==
    IF education = <<>> THEN Value(0)
    ELSE LET a == EntryScore(Head(education))
             b == MaxEntryScore(Tail(education))
         IN IF a.raises \/ b.raises THEN Raises
            ELSE Value(IF a.value > b.value THEN a.value ELSE b.value)

\* the education score; an exception gives 50
_calculate_education_score(analysis_data) ==
    IF ~IsDict(analysis_data) THEN 50
    ELSE IF "education" \notin DOMAIN analysis_data THEN 0
    ELSE LET education == analysis_data.education IN
         IF education = <<>> THEN 0
         ELSE LET best == MaxEntryScore(education) IN
              IF best.raises THEN 50 ELSE best.value

(***************************************************************************)
(* analyze_resume                                                          *)
(***************************************************************************)
\* mutant: the unparsable reply is handed back without the error field
AnalysisParseErrorUntagged(analysis_text) ==
    [raw_analysis |-> analysis_text,
     candidate_name |-> "Unknown",
     skills |-> <<>>,
     experience |-> <<>>,
     education |-> <<>>,
     summary |-> "Error processing resume"]

AnalysisParseError(analysis_text) ==
    [error |-> "Failed to parse response",
     raw_analysis |-> analysis_text,
     candidate_name |-> "Unknown",
     skills |-> <<>>,
     experience |-> <<>>,
     education |-> <<>>,
     summary |-> "Error processing resume"]

AnalysisError ==
    [error |-> "analyze_resume exception",
     candidate_name |-> "Error",
     skills |-> <<>>,
     experience |-> <<>>,
     education |-> <<>>,
     summary |-> "Error analyzing resume"]

AnalyzeModelCalls(resume_text, outcome) == <<Call("analyze", resume_text)>>

analyze_resume(resume_text, outcome) ==
    LET issued == AnalyzeModelCalls(resume_text, outcome) IN
    IF outcome.kind = "raise"
    THEN [ret |-> AnalysisError, calls |-> issued, path |-> "error"]
    ELSE
      LET analysis_text == Strip(outcome.content)
          analysis_data == ExtractJson(analysis_text)
      IN IF IsDecodeError(analysis_data)
         THEN [ret |-> AnalysisParseError(analysis_text), calls |-> issued,
               path |-> "parse_error"]
         ELSE IF ~IsDict(analysis_data)
         THEN \* analysis_data['technical_score'] = ... raises TypeError
              [ret |-> AnalysisError, calls |-> issued, path |-> "error"]
         ELSE [ret |-> SetKey(SetKey(SetKey(analysis_data,
                          "technical_score", _calculate_technical_score(analysis_data)),
                          "experience_years", _calculate_total_experience(analysis_data)),
                          "education_score", _calculate_education_score(analysis_data)),
               calls |-> issued, path |-> "parsed"]

(***************************************************************************)
(* ResumePreprocessor, ResumeValidator and preprocess_resume               *)
(***************************************************************************)
\* the single characters of a text that are outside [\w\s.,@()-]
BlankedChars == {"/", ":", "|"}

\* re.sub(r'[^\w\s.,@()-]', ' ', text): the colon of the sentinel becomes a blank
RECURSIVE BlankSpecials(_)
BlankSpecials(s) ==
    IF s = <<>> THEN <<>>
    ELSE (IF Head(s) = "ERR" THEN <<"ERRc", "sp">>
          ELSE IF Head(s) \in BlankedChars THEN <<"sp">>
          ELSE <<Head(s)>>) \o BlankSpecials(Tail(s))

\* re.sub(r'\s+', ' ', text)
RECURSIVE CollapseSpaces(_)
CollapseSpaces(s) ==
    IF Len(s) < 2 THEN s
    ELSE IF IsSpace(s[1]) /\ IsSpace(s[2]) THEN CollapseSpaces(Tail(s))
    ELSE <<Head(s)>> \o CollapseSpaces(Tail(s))

BasicClean(s) == Strip(CollapseSpaces(BlankSpecials(s)))

CleanModelCalls(resume_text, outcome) == <<Call("clean", resume_text)>>

\* a reply of the cleaning call is a text
clean_text(resume_text, outcome) ==
    [ret |-> IF outcome.kind = "raise" THEN BasicClean(resume_text) ELSE Strip(outcome.content),
     calls |-> CleanModelCalls(resume_text, outcome),
     path |-> IF outcome.kind = "raise" THEN "basic_clean" ELSE "model_clean"]

(* Section replies: "f_sec_*" is the member "section": "text" and          *)
(* "f_sec_skills_list" the member "skills": [...] (a JSON list, no string).*)
(* A section text is held as [words |-> n], the number of words split()    *)
(* finds in it.                                                            *)
SectionNames == <<"education", "experience", "skills", "projects", "certifications">>
SectionFieldTokens == {"f_sec_edu", "f_sec_exp", "f_sec_skills", "f_sec_proj", "f_sec_cert",
                       "f_sec_skills_list", "f_sec_skills_long"}
SectionStrTokens == {"s_education", "s_experience", "s_skills", "s_projects", "s_certifications"}

SectionText(n) == [words |-> n]
EmptySections == [k \in {SectionNames[i] : i \in 1..Len(SectionNames)} |-> SectionText(0)]

SectionFieldKey(tok) ==
    CASE tok = "f_sec_edu" -> "education"
      [] tok = "f_sec_exp" -> "experience"
      [] tok = "f_sec_skills" -> "skills"
      [] tok = "f_sec_proj" -> "projects"
      [] tok = "f_sec_cert" -> "certifications"
      [] tok = "f_sec_skills_list" -> "skills"
      [] tok = "f_sec_skills_long" -> "skills"

SectionFieldVal(tok) ==
    CASE tok = "f_sec_edu" -> SectionText(12)
      [] tok = "f_sec_exp" -> SectionText(12)
      [] tok = "f_sec_skills" -> SectionText(3)
      [] tok = "f_sec_proj" -> SectionText(12)
      [] tok = "f_sec_cert" -> SectionText(0)
      [] tok = "f_sec_skills_list" -> PyList(<<PyStr("python")>>)
      [] tok = "f_sec_skills_long" -> SectionText(12)

SectionStrText(tok) ==
    CASE tok = "s_education" -> "education"
      [] tok = "s_experience" -> "experience"
      [] tok = "s_skills" -> "skills"
      [] tok = "s_projects" -> "projects"
      [] tok = "s_certifications" -> "certifications"

\* json.loads of a section reply: an object of section members, a list of
\* string literals, a number, or no JSON
SectionsLoads(s) ==
    LET t == Strip(s) IN
    IF Len(t) >= 2 /\ t[1] = "{" /\ t[Len(t)] = "}"
       /\ \A i \in 2..(Len(t) - 1) : t[i] \in SectionFieldTokens
    THEN [k \in {SectionFieldKey(t[m]) : m \in 2..(Len(t) - 1)} |->
            SectionFieldVal(t[CHOOSE m \in 2..(Len(t) - 1) :
                SectionFieldKey(t[m]) = k
                /\ \A m2 \in (m + 1)..(Len(t) - 1) : SectionFieldKey(t[m2]) # k])]
    ELSE IF Len(t) >= 2 /\ t[1] = "[" /\ t[Len(t)] = "]"
            /\ \A i \in 2..(Len(t) - 1) : t[i] \in SectionStrTokens
    THEN PyList([i \in 1..(Len(t) - 2) |-> PyStr(SectionStrText(t[i + 1]))])
    ELSE IF t = <<"n">> THEN PyNum(1)
    ELSE JSONDecodeError

\* the loop `if section not in sections: sections[section] = ''`
RECURSIVE FillSections(_, _)
FillSections(sections, i) ==
    IF i > Len(SectionNames) THEN sections
    ELSE LET k == SectionNames[i] IN
         IF ContainsRaises(sections) THEN TypeError
         ELSE IF PyContains(sections, k) THEN FillSections(sections, i + 1)
         ELSE IF IsDict(sections) THEN FillSections(SetKey(sections, k, SectionText(0)), i + 1)
         ELSE TypeError

\* The heading patterns of the except branch, in the order of the dict; every
\* pattern is case-insensitive, so an alternative is held in lower case and
\* matched against the lower-cased text.
section_patterns ==
    << [section |-> "education",
        alts |-> << <<"e", "d", "u", "c", "a", "t", "i", "o", "n">>,
                    <<"a", "c", "a", "d", "e", "m", "i", "c", " ", "b", "a", "c", "k", "g", "r", "o", "u", "n", "d">>,
                    <<"q", "u", "a", "l", "i", "f", "i", "c", "a", "t", "i", "o", "n", "s">> >>],
       [section |-> "experience",
        alts |-> << <<"e", "x", "p", "e", "r", "i", "e", "n", "c", "e">>,
                    <<"w", "o", "r", "k", " ", "h", "i", "s", "t", "o", "r", "y">>,
                    <<"e", "m", "p", "l", "o", "y", "m", "e", "n", "t">>,
                    <<"p", "r", "o", "f", "e", "s", "s", "i", "o", "n", "a", "l", " ", "b", "a", "c", "k", "g", "r", "o", "u", "n", "d">> >>],
       [section |-> "skills",
        alts |-> << <<"s", "k", "i", "l", "l", "s">>,
                    <<"t", "e", "c", "h", "n", "i", "c", "a", "l", " ", "s", "k", "i", "l", "l", "s">>,
                    <<"c", "o", "m", "p", "e", "t", "e", "n", "c", "i", "e", "s">> >>],
       [section |-> "projects",
        alts |-> << <<"p", "r", "o", "j", "e", "c", "t", "s">>,
                    <<"p", "e", "r", "s", "o", "n", "a", "l", " ", "p", "r", "o", "j", "e", "c", "t", "s">>,
                    <<"p", "r", "o", "f", "e", "s", "s", "i", "o", "n", "a", "l", " ", "p", "r", "o", "j", "e", "c", "t", "s">> >>],
       [section |-> "certifications",
        alts |-> << <<"c", "e", "r", "t", "i", "f", "i", "c", "a", "t", "i", "o", "n", "s">>,
                    <<"c", "e", "r", "t", "i", "f", "i", "c", "a", "t", "e", "s">>,
                    <<"p", "r", "o", "f", "e", "s", "s", "i", "o", "n", "a", "l", " ", "d", "e", "v", "e", "l", "o", "p", "m", "e", "n", "t">> >>] >>

\* '|'.join(section_patterns.values()): the alternatives of all the patterns
AllAlts ==
    section_patterns[1].alts \o section_patterns[2].alts \o section_patterns[3].alts
    \o section_patterns[4].alts \o section_patterns[5].alts

\* the alternative matches the lower-cased text at position i
AltMatchesAt(alt, low, i) ==
    /\ i + Len(alt) - 1 <= Len(low)
    /\ low[i] = alt[1]
    /\ SubSeq(low, i, i + Len(alt) - 1) = alt

MatchesAt(alts, low, i) == \E k \in 1..Len(alts) : AltMatchesAt(alts[k], low, i)

\* the length of the match at i: the first alternative, in order, that matches
MatchLenAt(alts, low, i) ==
    Len(alts[CHOOSE k \in 1..Len(alts) :
                /\ AltMatchesAt(alts[k], low, i)
                /\ \A j \in 1..(k - 1) : ~AltMatchesAt(alts[j], low, i)])

\* the start of the first match of re.finditer at or after `from`; 0 if none
FirstMatch(alts, low, from) ==
    IF \E i \in from..Len(low) : MatchesAt(alts, low, i)
    THEN CHOOSE i \in from..Len(low) :
            /\ MatchesAt(alts, low, i)
            /\ \A j \in from..(i - 1) : ~MatchesAt(alts, low, j)
    ELSE 0

\* len(s.split()) of a string of characters
WordCount(cs) ==
    Cardinality({i \in 1..Len(cs) :
        ~IsSpaceChar(cs[i]) /\ (i = 1 \/ IsSpaceChar(cs[i - 1]))})

\* text[start:end].strip() of one section: from the end of the pattern's first
\* match to the start of the next heading of any section, or to the end
RegexSection(alts, cs) ==
    LET low == StrLower(cs)
        m == FirstMatch(alts, low, 1)
    IN IF m = 0 THEN <<>>
       ELSE LET start == m + MatchLenAt(alts, low, m)
                nxt == FirstMatch(AllAlts, low, start)
            IN CharStrip(SubSeq(cs, start, IF nxt = 0 THEN Len(cs) ELSE nxt - 1))

\* re.error, raised by re.finditer while it compiles a pattern
ReError == [re_error |-> TRUE]
IsReError(v) == "re_error" \in DOMAIN v

\* The pattern of the next-heading search joins the five patterns inside a
\* group, so their "(?i)" flags are not at the start of the expression.
\* Python up to 3.10 accepts that (with a DeprecationWarning), Python 3.11 and
\* later raise re.error; the repository pins no interpreter.
LateFlags == {"accepted", "rejected"}

\* the heading-pattern extraction of the except branch
RegexSections(resume_text, late_flags) ==
    LET cs == TextChars(resume_text)
        low == StrLower(cs)
    IN IF late_flags = "rejected"
          /\ \E p \in 1..Len(section_patterns) : FirstMatch(section_patterns[p].alts, low, 1) # 0
       THEN ReError
       ELSE [k \in {SectionNames[i] : i \in 1..Len(SectionNames)} |->
                SectionText(WordCount(RegexSection(
                    section_patterns[CHOOSE p \in 1..Len(section_patterns) :
                                        section_patterns[p].section = k].alts, cs)))]

SectionsModelCalls(resume_text, outcome) == <<Call("sections", resume_text)>>

\* the except branch: the value returned, or the re.error that leaves the function
SectionsFallback(resume_text, issued, late_flags) ==
    LET sections == RegexSections(resume_text, late_flags) IN
    [ret |-> sections, calls |-> issued,
     path |-> IF IsReError(sections) THEN "re_error" ELSE "regex"]

extract_sections(resume_text, outcome, late_flags) ==
    LET issued == SectionsModelCalls(resume_text, outcome) IN
    IF outcome.kind = "raise"
    THEN SectionsFallback(resume_text, issued, late_flags)
    ELSE LET sections == SectionsLoads(outcome.content) IN
         IF IsDecodeError(sections)
         THEN [ret |-> EmptySections, calls |-> issued, path |-> "decode_error"]
         ELSE LET filled == FillSections(sections, 1) IN
              IF IsTypeError(filled)
              THEN SectionsFallback(resume_text, issued, late_flags)
              ELSE [ret |-> filled, calls |-> issued, path |-> "parsed"]

MinSectionWords == 10

required_fields == <<"education", "experience", "skills">>

\* validate_required_fields: [raises, missing]
RECURSIVE ValidateRequired(_, _)
ValidateRequired(sections, i) ==
    IF ~IsDict(sections) THEN [raises |-> TRUE, missing |-> <<>>]
    ELSE IF i > Len(required_fields) THEN [raises |-> FALSE, missing |-> <<>>]
    ELSE LET field == required_fields[i]
             rest == ValidateRequired(sections, i + 1)
             v == sections[field]
         IN IF field \notin DOMAIN sections
               \/ ("words" \in DOMAIN v /\ v.words = 0)
               \/ ("list_items" \in DOMAIN v /\ v.list_items = <<>>)
            THEN [raises |-> rest.raises, missing |-> <<field>> \o rest.missing]
            ELSE IF "words" \notin DOMAIN v
            THEN [raises |-> TRUE, missing |-> <<>>]
            ELSE IF v.words < MinSectionWords
            THEN [raises |-> rest.raises, missing |-> <<field>> \o rest.missing]
            ELSE rest

(* validate_date_formats.  The three patterns are matched on the characters *)
(* of the text; a match is the string re.finditer yields.  An opaque token  *)
(* of a text is no letter, digit or underscore.                             *)
MonthAbbrs ==
    << <<"J", "a", "n">>, <<"F", "e", "b">>, <<"M", "a", "r">>, <<"A", "p", "r">>,
       <<"M", "a", "y">>, <<"J", "u", "n">>, <<"J", "u", "l">>, <<"A", "u", "g">>,
       <<"S", "e", "p">>, <<"O", "c", "t">>, <<"N", "o", "v">>, <<"D", "e", "c">> >>

\* \w
IsWordChar(c) == c \in DOMAIN LetterIndex \/ c \in Digits \/ c = "_"

\* \b in front of position i (i = Len + 1: at the end of the text)
WordBoundary(cs, i) ==
    (i > 1 /\ IsWordChar(cs[i - 1])) # (i <= Len(cs) /\ IsWordChar(cs[i]))

AllDigits(cs, i, n) == i + n - 1 <= Len(cs) /\ \A k \in i..(i + n - 1) : cs[k] \in Digits

\* the number of characters of [a-z]* at position i
RECURSIVE LowerRun(_, _)
LowerRun(cs, i) ==
    IF i <= Len(cs) /\ cs[i] \in {LowerLetters[k] : k \in 1..26} THEN 1 + LowerRun(cs, i + 1)
    ELSE 0

\* the length of the match at position i, 0 when there is none:
\* \b(Jan|Feb|...|Dec)[a-z]* \d{4}\b
MonthNameMatch(cs, i) ==
    IF /\ WordBoundary(cs, i)
       /\ i + 2 <= Len(cs)
       /\ \E m \in 1..Len(MonthAbbrs) : SubSeq(cs, i, i + 2) = MonthAbbrs[m]
    THEN LET e == i + 3 + LowerRun(cs, i + 3) IN
         IF e <= Len(cs) /\ cs[e] = " " /\ AllDigits(cs, e + 1, 4) /\ WordBoundary(cs, e + 5)
         THEN e + 5 - i ELSE 0
    ELSE 0

\* \b\d{2}/\d{2}/\d{4}\b
SlashMatch(cs, i) ==
    IF /\ WordBoundary(cs, i) /\ i + 9 <= Len(cs)
       /\ AllDigits(cs, i, 2) /\ cs[i + 2] = "/" /\ AllDigits(cs, i + 3, 2)
       /\ cs[i + 5] = "/" /\ AllDigits(cs, i + 6, 4) /\ WordBoundary(cs, i + 10)
    THEN 10 ELSE 0

\* \b\d{4}-\d{2}-\d{2}\b
IsoMatch(cs, i) ==
    IF /\ WordBoundary(cs, i) /\ i + 9 <= Len(cs)
       /\ AllDigits(cs, i, 4) /\ cs[i + 4] = "-" /\ AllDigits(cs, i + 5, 2)
       /\ cs[i + 7] = "-" /\ AllDigits(cs, i + 8, 2) /\ WordBoundary(cs, i + 10)
    THEN 10 ELSE 0

date_patterns == <<"month_name", "slash", "iso">>

PatternMatch(pattern, cs, i) ==
    CASE pattern = "month_name" -> MonthNameMatch(cs, i)
      [] pattern = "slash" -> SlashMatch(cs, i)
      [] pattern = "iso" -> IsoMatch(cs, i)

\* re.finditer(pattern, text) from position i on: the matches do not overlap
RECURSIVE FindIter(_, _, _)
FindIter(pattern, cs, i) ==
    IF i > Len(cs) THEN <<>>
    ELSE LET n == PatternMatch(pattern, cs, i) IN
         IF n > 0 THEN <<SubSeq(cs, i, i + n - 1)>> \o FindIter(pattern, cs, i + n)
         ELSE FindIter(pattern, cs, i + 1)

IsLeap(year) == year % 4 = 0 /\ (year % 100 # 0 \/ year % 400 = 0)

\* mutant: February has 28 days in every year
DaysInMonthNoLeap(year, month) ==
    CASE month = 2 -> 28
      [] month \in {4, 6, 9, 11} -> 30
      [] OTHER -> 31

\* the days of a month as datetime counts them
DaysInMonth(year, month) ==
    CASE month = 2 -> IF IsLeap(year) THEN 29 ELSE 28
      [] month \in {4, 6, 9, 11} -> 30
      [] OTHER -> 31

\* datetime.strptime(date_str, '%Y-%m-%d') raises ValueError: the string is
\* not digits-digits-digits, or the numbers are no date datetime accepts
StrptimeFails(date_str) ==
    IF /\ Len(date_str) = 10 /\ AllDigits(date_str, 1, 4) /\ date_str[5] = "-"
       /\ AllDigits(date_str, 6, 2) /\ date_str[8] = "-" /\ AllDigits(date_str, 9, 2)
    THEN LET year == DigitsValue(SubSeq(date_str, 1, 4))
             month == DigitsValue(SubSeq(date_str, 6, 7))
             day == DigitsValue(SubSeq(date_str, 9, 10))
         IN ~(/\ year >= 1
              /\ month \in 1..12
              /\ day >= 1 /\ day <= DaysInMonth(year, month))
    ELSE TRUE

\* the matches strptime rejects
InvalidOf(matches) == SelectSeq(matches, StrptimeFails)

validate_date_formats(cleaned_text) ==
    LET cs == TextChars(cleaned_text) IN
    InvalidOf(FindIter(date_patterns[1], cs, 1))
    \o InvalidOf(FindIter(date_patterns[2], cs, 1))
    \o InvalidOf(FindIter(date_patterns[3], cs, 1))

\* preprocess_resume: [raised, ret, calls]
preprocess_resume(resume_text, clean_outcome, sections_outcome, late_flags) ==
    LET c == clean_text(resume_text, clean_outcome)
        x == extract_sections(c.ret, sections_outcome, late_flags)
        v == ValidateRequired(x.ret, 1)
        invalid_dates == validate_date_formats(c.ret)
    IN [raised |-> v.raises,
        calls |-> c.calls \o x.calls,
        ret |-> IF v.raises THEN EmptyDict
                ELSE [original_text |-> resume_text,
                      cleaned_text |-> c.ret,
                      sections |-> x.ret,
                      validation |-> [missing_fields |-> v.missing,
                                      invalid_dates |-> invalid_dates,
                                      is_valid |-> v.missing = <<>> /\ invalid_dates = <<>>]]]

(***************************************************************************)
(* Inputs: model replies and database contents                             *)
(***************************************************************************)
JdTokens == {"sp", "b49", "b50"}
JobDescs == SeqsUpTo(JdTokens, MaxJdLen)

RECURSIVE SetToSeq(_, _)
\* the tokens of `order` that are in S, in that order
SetToSeq(S, order) ==
    IF order = <<>> THEN <<>>
    ELSE (IF Head(order) \in S THEN <<Head(order)>> ELSE <<>>) \o SetToSeq(S, Tail(order))

MatchFieldOrder == <<"f_oms", "f_sm", "f_er", "f_ed", "f_sum">>
AnalysisFieldOrder == <<"f_name", "f_skills", "f_exp", "f_edu", "f_asum">>

ObjectText(members) == <<"{">> \o members \o <<"}">>

MatchObjects == {ObjectText(SetToSeq(F, MatchFieldOrder)) : F \in SUBSET MatchFieldTokens}
AnalysisObjects == {ObjectText(SetToSeq(F, AnalysisFieldOrder)) : F \in SUBSET AnalysisFieldTokens}

\* replies that are no JSON object
OtherBodies ==
    { <<>>,                                              \* empty reply
      <<"w">>,                                           \* prose only
      <<"{", "f_oms">>,                                  \* object cut short
      <<"}", "w", "{">>,                                 \* braces in the wrong order
      <<"n">>,                                           \* a JSON number
      <<"[", "]">>,                                      \* a JSON list
      <<"[", "s_oms", "s_sm", "s_er", "s_ed", "]">>,     \* a list of the four key names
      <<"[", "s_oms", "]">>,
      <<"[", "{", "f_oms", "}", "]">>,                   \* a list of one object
      <<"[", "{", "f_oms", "}", "{", "f_sm", "}", "]">>  \* a list of two objects
    }

MatchReplies == MatchObjects \cup OtherBodies
\* objects that follow the prompt's "use null" for what the resume does not say
NullObjects ==
    {ObjectText(<<"f_name", "f_nskills", "f_exp", "f_edu">>),
     ObjectText(<<"f_skills", "f_nexp", "f_nedu">>)}
AnalysisReplies == AnalysisObjects \cup NullObjects \cup OtherBodies

MatchOutcomes == {Raise} \cup {Reply(b) : b \in MatchReplies}
AnalyzeOutcomes == {Raise} \cup {Reply(b) : b \in AnalysisReplies}

\* the outcomes drawn inside the service pipeline
SvcMatchOutcomes ==
    {Raise, Reply(<<"w">>), Reply(<<"n">>),
     Reply(<<"[", "s_oms", "s_sm", "s_er", "s_ed", "]">>),
     Reply(ObjectText(MatchFieldOrder)), Reply(ObjectText(<<"f_sum">>))}

SvcAnalyzeOutcomes ==
    {Raise, Reply(<<"w">>), Reply(<<"n">>), Reply(ObjectText(AnalysisFieldOrder)),
     Reply(ObjectText(<<"f_name">>)), Reply(ObjectText(<<"f_name", "f_contact">>)),
     Reply(ObjectText(<<"f_name", "f_ncontact">>))}

\* replies of the cleaning call: texts the model wrote
CleanReplies == {<<"b99">>, <<"b50", "b50">>, <<"sp", "b50", "b50", "sp">>}
CleanOutcomes == {Raise} \cup {Reply(t) : t \in CleanReplies}

SectionReplies ==
    { <<"w">>, <<"n">>, <<"{", "}">>,
      <<"{", "f_sec_edu", "f_sec_exp", "f_sec_skills", "f_sec_proj", "f_sec_cert", "}">>,
      <<"{", "f_sec_edu", "f_sec_skills_list", "}">>,
      <<"[", "s_education", "]">>,
      <<"[", "s_education", "s_experience", "s_skills", "s_projects", "s_certifications", "]">> }
SectionsOutcomes == {Raise} \cup {Reply(b) : b \in SectionReplies}

Roles == {"Software Engineer", "Designer"}
JobIds == {1, 2}

\* JobPosting rows; JobCategory rows
JobPostings ==
    [id \in {1} |-> [id |-> 1, title |-> "Backend Developer", department |-> "Engineering",
                     description |-> <<"b50">>, category_id |-> 7]]
JobCategories == [id \in {7} |-> [id |-> 7, name |-> "Software Development"]]

\* outcome of a database lookup: the row is read, or the query raises
DbOutcomes == {"ok", "raise"}
\* AIPrompt.query...first(): an active prompt of the role, none, or the query raises
PromptOutcomes == {"found", "none", "raise"}

(***************************************************************************)
(* State machine                                                           *)
(***************************************************************************)
NoWrap == [pre |-> <<>>, body |-> <<>>, post |-> <<>>]

Workers == {1, 2}

\* a worker that has not taken a resume yet
IdleRun ==
    [pc |-> "idle", text |-> <<>>, analysis_text |-> <<>>, match_text |-> <<>>,
     wrote |-> EmptyDict, seen |-> EmptyDict]

Init ==
    /\ pc = "idle"
    /\ entry = "none"
    /\ text = <<>>
    /\ role = ""
    /\ job_id = 0
    /\ jd = <<>>
    /\ cleaned = <<>>
    /\ analysis = EmptyDict
    /\ calls = <<>>
    /\ log = <<>>
    /\ ret = EmptyDict
    /\ score = 0
    /\ path = ""
    /\ raised = FALSE
    /\ faults = {}
    /\ wrap = NoWrap
    /\ files = EmptyDict
    /\ runs = [w \in Workers |-> IdleRun]
    /\ db = EmptyDict
    /\ resumes = EmptyDict

Invocation(fn, resume_text, job_description, outcome, r) ==
    [fn |-> fn, resume_text |-> resume_text, job_description |-> job_description,
     outcome |-> IF r.calls = <<>> THEN NoOutcome ELSE outcome, ret |-> r.ret, calls |-> r.calls, path |-> r.path]

\* a reply neither parse attempt can read as JSON
Unparsable(content) ==
    LET t == Strip(content) IN
    /\ IsDecodeError(JsonLoads(t))
    /\ Find(t, "{") >= 1 /\ RFind(t, "}") >= Find(t, "{")
         => IsDecodeError(JsonLoads(SubSeq(t, Find(t, "{"), RFind(t, "}"))))

\* the failure an engine call's outcome amounts to, if the call is issued
OutcomeFaults(site, r, outcome) ==
    IF r.calls = <<>> THEN {}
    ELSE IF outcome.kind = "raise" THEN {<<site, "call_failed">>}
    ELSE IF Unparsable(outcome.content) THEN {<<site, "unparsable">>}
    ELSE IF ~IsDict(ExtractJson(Strip(outcome.content))) THEN {<<site, "not_an_object">>}
    ELSE {}

\* ---- direct calls of the engine functions ----
CallMatch ==
    /\ pc = "idle"
    /\ \E t \in Texts, d \in JobDescs, o \in MatchOutcomes :
         \E r \in {generate_job_description_match(t, d, o)} :
         /\ entry' = "generate_job_description_match"
         /\ text' = t
         /\ jd' = d
         /\ calls' = r.calls
         /\ log' = <<Invocation("generate_job_description_match", t, d, o, r)>>
         /\ ret' = r.ret
         /\ path' = r.path
         /\ faults' = OutcomeFaults("match", r, o)
    /\ pc' = "done"
    /\ UNCHANGED <<wrap, files, runs, db, resumes, role, job_id, cleaned, analysis, score, raised>>

CallAnalyze ==
    /\ pc = "idle"
    /\ \E t \in Texts, o \in AnalyzeOutcomes :
         \E r \in {analyze_resume(t, o)} :
         /\ entry' = "analyze_resume"
         /\ text' = t
         /\ calls' = r.calls
         /\ log' = <<Invocation("analyze_resume", t, <<>>, o, r)>>
         /\ ret' = r.ret
         /\ path' = r.path
         /\ faults' = OutcomeFaults("analyze", r, o)
    /\ pc' = "done"
    /\ UNCHANGED <<wrap, files, runs, db, resumes, role, job_id, jd, cleaned, analysis, score, raised>>

CallCleanText ==
    /\ pc = "idle"
    /\ \E t \in Texts, o \in CleanOutcomes :
         \E r \in {clean_text(t, o)} :
         /\ entry' = "clean_text"
         /\ text' = t
         /\ calls' = r.calls
         /\ log' = <<Invocation("clean_text", t, <<>>, o, r)>>
         /\ cleaned' = r.ret
         /\ path' = r.path
    /\ pc' = "done"
    /\ UNCHANGED <<wrap, files, runs, db, resumes, role, job_id, jd, analysis, ret, score, raised, faults>>

\* resume texts with section headings in them
MaxSectionTextLen == 4
SectionTextTokens == {"sp", "Python", "Education", "SKILLS"}
SectionTexts == SeqsUpTo(SectionTextTokens, MaxSectionTextLen)

\* one call of extract_sections on a text of T
ExtractSectionsCall(T) ==
    /\ pc = "idle"
    /\ \E t \in T, o \in SectionsOutcomes, lf \in LateFlags :
         \E r \in {extract_sections(t, o, lf)} :
         /\ entry' = "extract_sections"
         /\ text' = t
         /\ calls' = r.calls
         /\ log' = <<Invocation("extract_sections", t, <<>>, o, r)>>
         /\ ret' = r.ret
         /\ path' = r.path
         /\ raised' = IsReError(r.ret)
    /\ pc' = "done"
    /\ UNCHANGED <<wrap, files, runs, db, resumes, role, job_id, jd, cleaned, analysis, score, faults>>

CallExtractSections == ExtractSectionsCall(Texts)

CallExtractSectionsHeaded == ExtractSectionsCall(SectionTexts)

NextSections ==
    \/ CallExtractSectionsHeaded

SpecSections == Init /\ [][NextSections]_vars

\* resume texts rich in bucket keywords, and job descriptions with and
\* without a "Job Title:" line
MaxAlignTextLen == 3
AlignTextTokens == {"tech5", "data5", "code", "both"}
AlignTexts == SeqsUpTo(AlignTextTokens, MaxAlignTextLen)
AlignJobDescs ==
    { <<>>, <<"DataSci">>, <<"JobTitle:">>, <<"JobTitle:", "nl", "softdev">>,
      <<"JobTitle:", "softdev">>, <<"JobTitle:", "DataSci", "nl", "softdev">>,
      <<"softdev", "nl", "JobTitle:", "DataSci">>,
      <<"JobTitle:", "DataSci", "JobTitle:", "softdev">> }

\* one call of _generate_fallback_analysis
CallFallbackAnalysis ==
    /\ pc = "idle"
    /\ \E t \in AlignTexts, j \in AlignJobDescs :
         \E r \in {_generate_fallback_analysis(t, j, <<"w">>)} :
         /\ entry' = "_generate_fallback_analysis"
         /\ text' = t
         /\ jd' = j
         /\ log' = <<[fn |-> "_generate_fallback_analysis", resume_text |-> t,
                      job_description |-> j, ret |-> r]>>
         /\ ret' = r
    /\ pc' = "done"
    /\ UNCHANGED <<wrap, files, runs, db, resumes, role, job_id, cleaned, analysis, calls, score, path,
                   raised, faults>>

NextAlign ==
    \/ CallFallbackAnalysis

SpecAlign == Init /\ [][NextAlign]_vars

(* Texts with dates, character by character ("sp" is a blank): up to        *)
(* MaxDatePieces pieces one after the other, and every date year-month-day  *)
(* of IsoYears, IsoMonths and IsoDays alone.                                *)
MaxDatePieces == 2
DatePieces ==
    { <<"J", "a", "n", "sp", "2", "0", "2", "0">>,
      <<"0", "3", "/", "1", "5", "/", "2", "0", "2", "1">>,
      <<"2", "0", "2", "4", "-", "0", "2", "-", "2", "9">>,
      <<"2", "0", "2", "3", "-", "0", "2", "-", "2", "9">>,
      <<"x">>, <<"sp">> }

RECURSIVE PieceTextsUpTo(_)
PieceTextsUpTo(n) ==
    IF n = 0 THEN {<<>>}
    ELSE PieceTextsUpTo(n - 1) \cup {t \o q : t \in PieceTextsUpTo(n - 1), q \in DatePieces}

PieceTexts == PieceTextsUpTo(MaxDatePieces)

IsoYears == {<<"0", "0", "0", "0">>, <<"1", "9", "0", "0">>, <<"2", "0", "0", "0">>, <<"2", "0", "2", "3">>, <<"2", "0", "2", "4">>}
IsoMonths == {<<"0", "0">>, <<"0", "2">>, <<"0", "4">>, <<"1", "2">>, <<"1", "3">>}
IsoDays == {<<"0", "0">>, <<"2", "8">>, <<"2", "9">>, <<"3", "0">>, <<"3", "1">>}
IsoTexts == {y \o <<"-">> \o m \o <<"-">> \o d : y \in IsoYears, m \in IsoMonths, d \in IsoDays}

DateTexts == PieceTexts \cup IsoTexts

\* one call of validate_date_formats
CallValidateDateFormats ==
    /\ pc = "idle"
    /\ \E t \in DateTexts :
         \E r \in {validate_date_formats(t)} :
         /\ entry' = "validate_date_formats"
         /\ text' = t
         /\ log' = <<[fn |-> "validate_date_formats", resume_text |-> t, raised |-> FALSE,
                      ret |-> PyList(r)]>>
         /\ ret' = PyList(r)
    /\ pc' = "done"
    /\ UNCHANGED <<wrap, files, runs, db, resumes, role, job_id, jd, cleaned, analysis, calls, score,
                   path, raised, faults>>

\* the cleaning call fails, or the model returns the text as it is, or
\* rewritten without its dates
DatedCleanOutcomes(t) == {Raise, Reply(t), Reply(<<"b99">>)}

\* the section call fails, or the model returns five sections of which the
\* required ones are long enough
DatedSectionsOutcomes ==
    {Raise, Reply(<<"{", "f_sec_edu", "f_sec_exp", "f_sec_skills_long", "}">>)}

\* one call of preprocess_resume
CallPreprocessResume ==
    /\ pc = "idle"
    /\ \E t \in PieceTexts, so \in DatedSectionsOutcomes, lf \in LateFlags :
         \E co \in DatedCleanOutcomes(t) :
         \E p \in {preprocess_resume(t, co, so, lf)} :
         /\ entry' = "preprocess_resume"
         /\ text' = t
         /\ calls' = p.calls
         /\ log' = <<[fn |-> "preprocess_resume", resume_text |-> t, raised |-> p.raised,
                      ret |-> p.ret]>>
         /\ ret' = p.ret
         /\ raised' = p.raised
    /\ pc' = "done"
    /\ UNCHANGED <<wrap, files, runs, db, resumes, role, job_id, jd, cleaned, analysis, score, path,
                   faults>>

NextDates ==
    \/ CallValidateDateFormats
    \/ CallPreprocessResume

SpecDates == Init /\ [][NextDates]_vars

(***************************************************************************)
(* AIService (app/services/__init__.py)                                    *)
(***************************************************************************)
MinTextChars == 100

ServiceError(msg, job_role, summary) ==
    [error |-> msg, job_role |-> job_role, candidate_name |-> "Error", summary |-> summary]

\* the two checks at the head of process_resume
ProcessResumeCheck(text_content) ==
    IF StartsWithSentinel(text_content) THEN "extraction_error"
    ELSE IF PyLen(Strip(text_content)) < MinTextChars THEN "insufficient_text"
    ELSE "ok"

\* process_resume up to the call of analyze_resume
EnterProcessResume(t, r) ==
    LET check == ProcessResumeCheck(t) IN
    /\ text' = t
    /\ role' = r
    /\ IF check = "extraction_error"
       THEN /\ ret' = ServiceError("ERROR EXTRACTING TEXT", r, "Error extracting text from resume")
            /\ score' = 0
            /\ path' = check
            /\ faults' = faults \cup {<<"input", "extraction_error">>}
            /\ pc' = "done"
       ELSE IF check = "insufficient_text"
       THEN /\ ret' = ServiceError("Insufficient text content in resume", r,
                                   "The resume doesn't contain enough text to analyze")
            /\ score' = 0
            /\ path' = check
            /\ faults' = faults \cup {<<"input", "insufficient_text">>}
            /\ pc' = "done"
       ELSE /\ pc' = "pr_analyze"
            /\ UNCHANGED <<ret, score, path, faults>>

ProcessResumeStart ==
    /\ pc = "idle"
    /\ \E t \in Texts, r \in Roles :
         /\ entry' = "process_resume"
         /\ EnterProcessResume(t, r)
    /\ UNCHANGED <<wrap, files, runs, db, resumes, job_id, jd, cleaned, analysis, calls, log, raised>>

\* analysis = self.processor.analyze_resume(text_content)
ProcessResumeAnalyze ==
    /\ pc = "pr_analyze"
    /\ \E o \in SvcAnalyzeOutcomes :
         \E r \in {analyze_resume(text, o)} :
         /\ analysis' = r.ret
         /\ calls' = calls \o r.calls
         /\ log' = Append(log, Invocation("analyze_resume", text, <<>>, o, r))
         /\ faults' = faults \cup OutcomeFaults("analyze", r, o)
    /\ pc' = "pr_prompt"
    /\ UNCHANGED <<wrap, files, runs, db, resumes, entry, text, role, job_id, jd, cleaned, ret, score, path, raised>>

\* the handler `except Exception as e` around the OpenAI processing
AiProcessingError(job_role, text_content) ==
    [ret |-> [error |-> "AI processing error", job_role |-> job_role,
              candidate_name |-> "Error",
              summary |-> "Error during AI processing of resume",
              raw_text |-> text_content],
     score |-> 0, path |-> "ai_processing_error", raised |-> FALSE]

\* the AIPrompt lookup and the job description written around the role
ProcessResumePrompt ==
    /\ pc = "pr_prompt"
    /\ \E dbo \in PromptOutcomes :
         IF dbo = "raise"
         THEN LET h == AiProcessingError(role, text) IN
              /\ ret' = h.ret
              /\ score' = h.score
              /\ path' = h.path
              /\ raised' = h.raised
              /\ faults' = faults \cup {<<"db", "prompt_query_failed">>}
              /\ pc' = "done"
              /\ UNCHANGED jd
         ELSE /\ jd' = <<"role_template">>
              /\ pc' = "pr_match"
              /\ UNCHANGED <<ret, score, path, raised, faults>>
    /\ UNCHANGED <<wrap, files, runs, db, resumes, entry, text, role, job_id, cleaned, analysis, calls, log>>

\* mutant: the analysis is unpacked last and wins over the match
CombineResumeAnalysisWins(an, match_analysis, job_role) ==
    [ret |-> SetKey(Merge(match_analysis, an), "job_role", job_role),
     score |-> IF "overall_match_score" \in DOMAIN match_analysis
               THEN match_analysis.overall_match_score ELSE 0,
     path |-> "combined", raised |-> FALSE]

\* processed_data = {**analysis, **match_analysis, 'job_role': job_role} and
\* ranking_score = match_analysis.get('overall_match_score', 0)
CombineResume(an, match_analysis, job_role) ==
    [ret |-> SetKey(Merge(an, match_analysis), "job_role", job_role),
     score |-> IF "overall_match_score" \in DOMAIN match_analysis
               THEN match_analysis.overall_match_score ELSE 0,
     path |-> "combined", raised |-> FALSE]

ProcessResumeMatch ==
    /\ pc = "pr_match"
    /\ \E o \in SvcMatchOutcomes :
         \E r \in {generate_job_description_match(text, jd, o)} :
         LET h == IF IsDict(r.ret) THEN CombineResume(analysis, r.ret, role)
                  ELSE AiProcessingError(role, text)
         IN /\ calls' = calls \o r.calls
            /\ log' = Append(log, Invocation("generate_job_description_match", text, jd, o, r))
            /\ faults' = faults \cup OutcomeFaults("match", r, o)
            /\ ret' = h.ret
            /\ score' = h.score
            /\ path' = h.path
            /\ raised' = h.raised
    /\ pc' = "done"
    /\ UNCHANGED <<wrap, files, runs, db, resumes, entry, text, role, job_id, jd, cleaned, analysis>>

\* mutant: the handler logs and re-raises
WithJobErrorReraise(job_role, id) ==
    [ret |-> EmptyDict, score |-> 0, path |-> "with_job_error", raised |-> TRUE]

\* the handler `except Exception as e` of process_resume_with_job
WithJobError(job_role, id) ==
    [ret |-> [error |-> "exception", job_role |-> job_role, job_id |-> id,
              candidate_name |-> "Error", summary |-> "Error processing resume"],
     score |-> 0, path |-> "with_job_error", raised |-> FALSE]

\* process_resume_with_job up to preprocess_resume: the JobPosting lookup; a
\* missing posting hands the call over to process_resume
ProcessResumeWithJobStart ==
    /\ pc = "idle"
    /\ \E t \in Texts, r \in Roles, id \in JobIds, dbo \in DbOutcomes :
         /\ entry' = "process_resume_with_job"
         /\ job_id' = id
         /\ IF dbo = "raise"
            THEN LET h == WithJobError(r, id) IN
                 /\ text' = t
                 /\ role' = r
                 /\ ret' = h.ret
                 /\ score' = h.score
                 /\ path' = h.path
                 /\ raised' = h.raised
                 /\ faults' = {<<"db", "posting_query_failed">>}
                 /\ pc' = "done"
            ELSE IF id \notin DOMAIN JobPostings
            THEN /\ EnterProcessResume(t, r)
                 /\ UNCHANGED raised
            ELSE /\ text' = t
                 /\ role' = r
                 /\ pc' = "wj_preprocess"
                 /\ UNCHANGED <<ret, score, path, raised, faults>>
    /\ UNCHANGED <<wrap, files, runs, db, resumes, jd, cleaned, analysis, calls, log>>

\* preprocessed_data = preprocess_resume(text_content)
WithJobPreprocess ==
    /\ pc = "wj_preprocess"
    /\ \E co \in CleanOutcomes, so \in SectionsOutcomes, lf \in LateFlags :
         \E p \in {preprocess_resume(text, co, so, lf)} :
         /\ calls' = calls \o p.calls
         /\ IF p.raised
            THEN LET h == WithJobError(role, job_id) IN
                 /\ ret' = h.ret
                 /\ score' = h.score
                 /\ path' = h.path
                 /\ raised' = h.raised
                 /\ faults' = faults \cup {<<"preprocess", "exception">>}
                 /\ pc' = "done"
                 /\ UNCHANGED cleaned
            ELSE /\ cleaned' = p.ret.cleaned_text
                 /\ pc' = "wj_analyze"
                 /\ UNCHANGED <<ret, score, path, raised, faults>>
    /\ UNCHANGED <<wrap, files, runs, db, resumes, entry, text, role, job_id, jd, analysis, log>>

\* analysis = self.processor.analyze_resume(preprocessed_data['cleaned_text'])
WithJobAnalyze ==
    /\ pc = "wj_analyze"
    /\ \E o \in SvcAnalyzeOutcomes :
         \E r \in {analyze_resume(cleaned, o)} :
         /\ analysis' = r.ret
         /\ calls' = calls \o r.calls
         /\ log' = Append(log, Invocation("analyze_resume", cleaned, <<>>, o, r))
         /\ faults' = faults \cup OutcomeFaults("analyze", r, o)
    /\ pc' = "wj_match"
    /\ UNCHANGED <<wrap, files, runs, db, resumes, entry, text, role, job_id, jd, cleaned, ret, score, path, raised>>

\* the job description written from the posting
PostingDescription(job_posting) == <<"posting_labels">> \o job_posting.description

\* the match, the JobCategory lookup and the combined record
WithJobMatch ==
    /\ pc = "wj_match"
    /\ \E o \in SvcMatchOutcomes, dbo \in DbOutcomes :
         \E r \in {generate_job_description_match(
                       cleaned, PostingDescription(JobPostings[job_id]), o)} :
         LET job_posting == JobPostings[job_id]
             job_description == PostingDescription(job_posting)
             job_category == JobCategories[job_posting.category_id]
             c == CombineResume(analysis, r.ret, role)
             h == IF dbo = "raise" \/ ~IsDict(r.ret) THEN WithJobError(role, job_id)
                  ELSE [ret |-> Merge(c.ret,
                                  [job_title |-> job_posting.title,
                                   job_department |-> job_posting.department,
                                   job_id |-> job_posting.id,
                                   job_category |-> job_category.name,
                                   job_category_id |-> job_category.id]),
                        score |-> c.score, path |-> c.path, raised |-> c.raised]
         IN /\ jd' = job_description
            /\ calls' = calls \o r.calls
            /\ log' = Append(log, Invocation("generate_job_description_match",
                                             cleaned, job_description, o, r))
            /\ faults' = faults \cup OutcomeFaults("match", r, o)
                         \cup (IF dbo = "raise" THEN {<<"db", "category_query_failed">>} ELSE {})
            /\ ret' = h.ret
            /\ score' = h.score
            /\ path' = h.path
            /\ raised' = h.raised
    /\ pc' = "done"
    /\ UNCHANGED <<wrap, files, runs, db, resumes, entry, text, role, job_id, cleaned, analysis>>

\* ---- replies that wrap a JSON object ----
WrapTokens == {"w", "fence", "nl", "{", "}"}
Wraps == SeqsUpTo(WrapTokens, MaxWrap)

\* arguments that pass the input checks
ParseResumeText == <<"b50", "b50">>
ParseJobDesc == <<"b50">>

ParseMatchReply ==
    /\ pc = "idle"
    /\ \E pre \in Wraps, body \in MatchObjects, post \in Wraps :
         \E o \in {Reply(pre \o body \o post)} :
         \E r \in {generate_job_description_match(ParseResumeText, ParseJobDesc, o)} :
            /\ entry' = "generate_job_description_match"
            /\ wrap' = [pre |-> pre, body |-> body, post |-> post]
            /\ calls' = r.calls
            /\ log' = <<Invocation("generate_job_description_match",
                                   ParseResumeText, ParseJobDesc, o, r)>>
            /\ ret' = r.ret
            /\ path' = r.path
            /\ faults' = OutcomeFaults("match", r, o)
    /\ text' = ParseResumeText
    /\ jd' = ParseJobDesc
    /\ pc' = "done"
    /\ UNCHANGED <<files, runs, db, resumes, role, job_id, cleaned, analysis, score, raised>>

ParseAnalyzeReply ==
    /\ pc = "idle"
    /\ \E pre \in Wraps, body \in AnalysisObjects, post \in Wraps :
         \E o \in {Reply(pre \o body \o post)} :
         \E r \in {analyze_resume(ParseResumeText, o)} :
            /\ entry' = "analyze_resume"
            /\ wrap' = [pre |-> pre, body |-> body, post |-> post]
            /\ calls' = r.calls
            /\ log' = <<Invocation("analyze_resume", ParseResumeText, <<>>, o, r)>>
            /\ ret' = r.ret
            /\ path' = r.path
            /\ faults' = OutcomeFaults("analyze", r, o)
    /\ text' = ParseResumeText
    /\ pc' = "done"
    /\ UNCHANGED <<files, runs, db, resumes, role, job_id, jd, cleaned, analysis, score, raised>>

NextParse ==
    \/ ParseMatchReply
    \/ ParseAnalyzeReply

SpecParse == Init /\ [][NextParse]_vars

(***************************************************************************)
(* Text extraction.  There are two extractors named ResumeProcessor: the   *)
(* one of app/services, which the upload and reprocess routes import, and  *)
(* the one of app/utils.  A library call either raises or returns; a PDF   *)
(* reader returns the texts of the pages (None for a page without text), a *)
(* DOCX reader the paragraphs and tables, a file read the text.            *)
(*   "reason"  the message of the exception or of the error                *)
(*   "bar"     the three characters " | "                                  *)
(***************************************************************************)
PdfMime == "application/pdf"
DocxMime == "application/vnd.openxmlformats-officedocument.wordprocessingml.document"
MsWordMime == "application/msword"
TxtMime == "text/plain"
NoMime == "None"

LibRaise == [kind |-> "raise"]
LibReturn(x) == [kind |-> "return", value |-> x]

\* page.extract_text() returned None
PageNone == <<"None">>

\* the sentinel text f"ERROR EXTRACTING TEXT: {...}"
SentinelText == <<"ERR", "sp", "reason">>

Extracted(t, how) == [raised |-> FALSE, text |-> t, path |-> how]
ExtractRaise(how) == [raised |-> TRUE, text |-> <<>>, path |-> how]

RECURSIVE Join(_, _)
\* sep.join(parts)
Join(parts, sep) ==
    IF parts = <<>> THEN <<>>
    ELSE IF Len(parts) = 1 THEN parts[1]
    ELSE parts[1] \o sep \o Join(Tail(parts), sep)

\* the text is empty or whitespace only: `not text.strip()`
IsBlank(t) == Strip(t) = <<>>

RECURSIVE PagesPlusNewline(_, _)
\* text += page.extract_text() + sep, for every page; None + str raises
PagesPlusNewline(pages, sep) ==
    IF pages = <<>> THEN LibReturn(<<>>)
    ELSE IF Head(pages) = PageNone THEN LibRaise
    ELSE LET rest == PagesPlusNewline(Tail(pages), sep) IN
         IF rest.kind = "raise" THEN LibRaise
         ELSE LibReturn(Head(pages) \o sep \o rest.value)

RECURSIVE PagesOrNewline(_)
\* text += page.extract_text() or "" + "\n": the page text if it has any,
\* else the newline
PagesOrNewline(pages) ==
    IF pages = <<>> THEN <<>>
    ELSE (IF Head(pages) = PageNone \/ Head(pages) = <<>> THEN <<"nl">> ELSE Head(pages))
         \o PagesOrNewline(Tail(pages))

RECURSIVE PagesOrEmpty(_)
\* text += (page.extract_text() or "") + "\n\n"
PagesOrEmpty(pages) ==
    IF pages = <<>> THEN <<>>
    ELSE (IF Head(pages) = PageNone THEN <<>> ELSE Head(pages)) \o <<"nl", "nl">>
         \o PagesOrEmpty(Tail(pages))

\* services: PyPDF2 first, pdfplumber when PyPDF2 gave no text; errors raise
_extract_from_pdf(pypdf2, pdfplumber) ==
    IF pypdf2.kind = "raise" THEN ExtractRaise("PyPDF2 raised")
    ELSE LET first == PagesPlusNewline(pypdf2.value, <<"nl">>) IN
         IF first.kind = "raise" THEN ExtractRaise("PyPDF2 raised")
         ELSE IF ~IsBlank(first.value) THEN Extracted(first.value, "PyPDF2")
         ELSE IF pdfplumber.kind = "raise" THEN ExtractRaise("pdfplumber raised")
         ELSE Extracted(first.value \o PagesOrNewline(pdfplumber.value), "pdfplumber")

\* services: the paragraphs joined by a newline; tables are not read
_extract_from_docx(document) ==
    IF document.kind = "raise" THEN ExtractRaise("docx raised")
    ELSE Extracted(Join(document.value.paragraphs, <<"nl">>), "docx")

\* services: UTF-8, then Latin-1 on a decode error
_extract_from_txt(utf8, latin1) ==
    IF utf8.kind = "return" THEN Extracted(utf8.value, "utf-8")
    ELSE IF utf8.kind = "decode_error"
    THEN IF latin1.kind = "return" THEN Extracted(latin1.value, "latin-1")
         ELSE ExtractRaise("latin-1 raised")
    ELSE ExtractRaise("utf-8 raised")

\* mutant: the handler logs the error and lets it go on
ServiceExtractErrorReraise(r) == r

\* services: `except Exception as e: return f"ERROR EXTRACTING TEXT: {str(e)}"`
ServiceExtractError(r) ==
    IF r.raised THEN Extracted(SentinelText, r.path) ELSE r

\* services/__init__.py extract_text_from_file
extract_text_from_file(mime_type, lib) ==
    ServiceExtractError(
        IF mime_type = PdfMime THEN _extract_from_pdf(lib.pypdf2, lib.pdfplumber)
        ELSE IF mime_type = DocxMime THEN _extract_from_docx(lib.docx)
        ELSE IF mime_type = TxtMime THEN _extract_from_txt(lib.utf8, lib.latin1)
        ELSE ExtractRaise("unsupported"))

\* utils: pdfplumber, then PyPDF2, then pdftotext; the first text that is not
\* blank is returned, an error of one method leads to the next
_extract_text_from_pdf(pdfplumber, pypdf2, pdftotext) ==
    LET a == IF pdfplumber.kind = "raise" THEN LibRaise
             ELSE LibReturn(PagesOrEmpty(pdfplumber.value))
        b == IF pypdf2.kind = "raise" THEN LibRaise
             ELSE PagesPlusNewline(pypdf2.value, <<"nl", "nl">>)
    IN IF a.kind = "return" /\ ~IsBlank(a.value) THEN Extracted(a.value, "pdfplumber")
       ELSE IF b.kind = "return" /\ ~IsBlank(b.value) THEN Extracted(b.value, "PyPDF2")
       ELSE IF pdftotext.kind = "return" /\ ~IsBlank(pdftotext.value)
       THEN Extracted(pdftotext.value, "pdftotext")
       ELSE Extracted(SentinelText, "all methods failed")

RECURSIVE NonBlank(_)
\* [x for x in texts if x.strip()]
NonBlank(texts) ==
    IF texts = <<>> THEN <<>>
    ELSE (IF IsBlank(Head(texts)) THEN <<>> ELSE <<Head(texts)>>) \o NonBlank(Tail(texts))

RECURSIVE RowsText(_)
\* for row in table.rows: the cells that are not blank joined by " | ",
\* appended after a newline when the row text is not empty
RowsText(rows) ==
    IF rows = <<>> THEN <<>>
    ELSE LET row_text == Join(NonBlank(Head(rows)), <<"bar">>) IN
         (IF row_text # <<>> THEN <<"nl">> \o row_text ELSE <<>>) \o RowsText(Tail(rows))

RECURSIVE TablesText(_)
TablesText(tables) ==
    IF tables = <<>> THEN <<>>
    ELSE RowsText(Head(tables)) \o TablesText(Tail(tables))

\* utils: the paragraphs that are not blank joined by a blank line, then the
\* rows of the tables
_extract_text_from_docx(document) ==
    IF document.kind = "raise" THEN Extracted(SentinelText, "docx raised")
    ELSE Extracted(Join(NonBlank(document.value.paragraphs), <<"nl", "nl">>)
                   \o TablesText(document.value.tables), "docx")

\* utils: UTF-8 with errors ignored
_extract_text_from_txt(utf8) ==
    IF utf8.kind = "return" THEN Extracted(utf8.value, "utf-8")
    ELSE Extracted(SentinelText, "utf-8 raised")

\* utils.py extract_text_from_file; `magic` names the type when none is given
UtilsExtractTextFromFile(mime_type, lib) ==
    IF mime_type = NoMime /\ lib.magic.kind = "raise"
    THEN Extracted(SentinelText, "magic raised")
    ELSE LET mt == IF mime_type = NoMime THEN lib.magic.value ELSE mime_type IN
         IF mt = PdfMime THEN _extract_text_from_pdf(lib.pdfplumber, lib.pypdf2, lib.pdftotext)
         ELSE IF mt \in {DocxMime, MsWordMime} THEN _extract_text_from_docx(lib.docx)
         ELSE IF mt = TxtMime THEN _extract_text_from_txt(lib.utf8)
         ELSE Extracted(SentinelText, "unsupported")

\* ---- what the libraries can answer ----
PageTexts == {PageNone, <<>>, <<"b99">>}
PdfOutcomes == {LibRaise} \cup {LibReturn(pages) : pages \in SeqsUpTo(PageTexts, MaxPages)}
FileTexts == {<<>>, <<"sp">>, <<"b99">>}
ReadOutcomes == {LibRaise} \cup {LibReturn(t) : t \in FileTexts}
Utf8Outcomes == ReadOutcomes \cup {[kind |-> "decode_error"]}

ParaTexts == {<<"Jane Doe">>, <<"Software Engineer">>, <<>>, <<"sp">>}
SkillRow == <<<<"Python">>, <<"5 yrs">>>>
HalfRow == <<<<"Python">>, <<>>>>
BlankRow == <<<<>>, <<"sp">>>>
DocTables ==
    {<<>>, <<<<SkillRow>>>>, <<<<SkillRow, HalfRow>>>>, <<<<BlankRow>>, <<SkillRow>>>>,
     <<<<HalfRow>>>>, <<<<BlankRow>>>>}
Documents ==
    {[paragraphs |-> ps, tables |-> ts] : ps \in SeqsUpTo(ParaTexts, MaxParas), ts \in DocTables}
DocxOutcomes == {LibRaise} \cup {LibReturn(d) : d \in Documents}
MagicOutcomes == {LibRaise} \cup {LibReturn(m) : m \in {PdfMime, DocxMime, TxtMime, "image/png"}}

Extractors == {"services", "utils"}

NoLib ==
    [pypdf2 |-> LibRaise, pdfplumber |-> LibRaise, pdftotext |-> LibRaise,
     docx |-> LibRaise, utf8 |-> LibRaise, latin1 |-> LibRaise, magic |-> LibRaise]

\* one call of extract_text_from_file of either extractor
Extraction(impl, mime_type, lib) ==
    \E r \in {IF impl = "services" THEN extract_text_from_file(mime_type, lib)
              ELSE UtilsExtractTextFromFile(mime_type, lib)} :
       /\ pc = "idle"
       /\ pc' = "done"
       /\ entry' = "extract_text_from_file"
       /\ text' = r.text
       /\ path' = r.path
       /\ raised' = r.raised
       /\ log' = <<[fn |-> "extract_text_from_file", impl |-> impl,
                    mime_type |-> mime_type, lib |-> lib, ret |-> r.text]>>
       /\ UNCHANGED <<wrap, files, runs, db, resumes, role, job_id, jd, cleaned, analysis, calls, ret, score, faults>>

ExtractPdf ==
    \E impl \in Extractors, a \in PdfOutcomes, b \in PdfOutcomes, c \in ReadOutcomes :
        Extraction(impl, PdfMime, [NoLib EXCEPT !.pypdf2 = a, !.pdfplumber = b, !.pdftotext = c])

ExtractDocx ==
    \E impl \in Extractors, m \in {DocxMime, MsWordMime}, d \in DocxOutcomes :
        Extraction(impl, m, [NoLib EXCEPT !.docx = d])

ExtractTxt ==
    \E impl \in Extractors, a \in Utf8Outcomes, b \in ReadOutcomes :
        Extraction(impl, TxtMime, [NoLib EXCEPT !.utf8 = a, !.latin1 = b])

ExtractOther ==
    \E impl \in Extractors, m \in {"image/png", NoMime}, g \in MagicOutcomes,
       a \in {LibRaise, LibReturn(<<<<"b99">>>>)}, t \in {LibRaise, LibReturn(<<"b99">>)} :
        Extraction(impl, m, [NoLib EXCEPT !.magic = g, !.pdfplumber = a, !.utf8 = t])

NextExtract == ExtractPdf \/ ExtractDocx \/ ExtractTxt \/ ExtractOther

SpecExtract == Init /\ [][NextExtract]_vars

(***************************************************************************)
(* The derived scores on the lists a parsed analysis can hold.             *)
(***************************************************************************)
\* "Advanced", "EXPERT", "beginner", "guru", null
Levels ==
    {PyStr(<<"A", "d", "v", "a", "n", "c", "e", "d">>),
     PyStr(<<"E", "X", "P", "E", "R", "T">>),
     PyStr(<<"b", "e", "g", "i", "n", "n", "e", "r">>),
     PyStr(<<"g", "u", "r", "u">>),
     PyNone}
\* skill objects with and without a level, and a skill given as a bare string
SkillEntries ==
    {[name |-> "Python", level |-> l] : l \in Levels}
    \cup {[name |-> "Python"], PyStr(<<"p", "y", "t", "h", "o", "n">>)}

\* "3 years", "2.5 years", "N/A", "3 to 5 years", "2.5 yrs.", null
Durations ==
    {PyStr(<<"3", " ", "y", "e", "a", "r", "s">>),
     PyStr(<<"2", ".", "5", " ", "y", "e", "a", "r", "s">>),
     PyStr(<<"N", "/", "A">>),
     PyStr(<<"3", " ", "t", "o", " ", "5", " ", "y", "e", "a", "r", "s">>),
     PyStr(<<"2", ".", "5", " ", "y", "r", "s", ".">>),
     PyNone}
ExperienceEntries ==
    {[title |-> "Engineer", duration |-> d] : d \in Durations} \cup {[title |-> "Engineer"]}

\* "Bachelor of Science", "Master of Arts", "Bachelor and Master of Science",
\* "High School Diploma, PhD", "BSc", null
Degrees ==
    {PyStr(<<"B", "a", "c", "h", "e", "l", "o", "r", " ", "o", "f", " ", "S", "c", "i", "e", "n", "c", "e">>),
     PyStr(<<"M", "a", "s", "t", "e", "r", " ", "o", "f", " ", "A", "r", "t", "s">>),
     PyStr(<<"B", "a", "c", "h", "e", "l", "o", "r", " ", "a", "n", "d", " ", "M", "a", "s", "t", "e", "r", " ", "o", "f", " ", "S", "c", "i", "e", "n", "c", "e">>),
     PyStr(<<"H", "i", "g", "h", " ", "S", "c", "h", "o", "o", "l", " ", "D", "i", "p", "l", "o", "m", "a", ",", " ", "P", "h", "D">>),
     PyStr(<<"B", "S", "c">>),
     PyNone}
EducationEntries ==
    {[degree |-> d] : d \in Degrees} \cup {[institution |-> "MIT"]}

\* one call of a score function on a parsed analysis
ScoreCall(fn, analysis_data, v) ==
    /\ pc = "idle"
    /\ pc' = "done"
    /\ entry' = fn
    /\ score' = v
    /\ log' = <<[fn |-> fn, analysis_data |-> analysis_data, ret |-> v]>>
    /\ UNCHANGED <<wrap, files, runs, db, resumes, text, role, job_id, jd, cleaned, analysis, calls, ret, path,
                   raised, faults>>

CallTechnicalScore ==
    \E ad \in {[skills |-> l] : l \in SeqsUpTo(SkillEntries, MaxSkills)}
              \cup {EmptyDict, PyList(<<>>)} :
        ScoreCall("_calculate_technical_score", ad, _calculate_technical_score(ad))

CallTotalExperience ==
    \E ad \in {[experience |-> l] : l \in SeqsUpTo(ExperienceEntries, MaxExperience)}
              \cup {EmptyDict, PyList(<<>>)} :
        ScoreCall("_calculate_total_experience", ad, _calculate_total_experience(ad))

CallEducationScore ==
    \E ad \in {[education |-> l] : l \in SeqsUpTo(EducationEntries, MaxEducation)}
              \cup {EmptyDict, PyList(<<>>)} :
        ScoreCall("_calculate_education_score", ad, _calculate_education_score(ad))

NextScores == CallTechnicalScore \/ CallTotalExperience \/ CallEducationScore

SpecScores == Init /\ [][NextScores]_vars

(***************************************************************************)
(* The fallback's keyword scan: generate_job_description_match on resume   *)
(* texts made of a 99-character run, a blank and up to MaxScanLen words or *)
(* blanks, with a failed call and with replies that cannot be parsed.      *)
(***************************************************************************)
ScanTokens == WordTokens \cup {"sp"}
ScanTexts == {<<"b99", "sp">> \o w : w \in SeqsUpTo(ScanTokens, MaxScanLen)}
ScanOutcomes == {Raise, Reply(<<"w">>), Reply(<<"{", "f_oms">>)}

ScanMatch ==
    /\ pc = "idle"
    /\ \E t \in ScanTexts, o \in ScanOutcomes :
         \E r \in {generate_job_description_match(t, ParseJobDesc, o)} :
         /\ entry' = "generate_job_description_match"
         /\ text' = t
         /\ jd' = ParseJobDesc
         /\ calls' = r.calls
         /\ log' = <<Invocation("generate_job_description_match", t, ParseJobDesc, o, r)>>
         /\ ret' = r.ret
         /\ path' = r.path
         /\ faults' = OutcomeFaults("match", r, o)
    /\ pc' = "done"
    /\ UNCHANGED <<wrap, files, runs, db, resumes, role, job_id, cleaned, analysis, score, raised>>

NextScan == ScanMatch

SpecScan == Init /\ [][NextScan]_vars

(***************************************************************************)
(* The routes that store a run's result (app/routes/resume.py,             *)
(* admin/routes.py)                                                        *)
(***************************************************************************)
\* resume.id of the uploaded resume
UploadedResumeId == 1

\* mutant: experience_match is read from education_relevance
ProcessedResumeSwapped(resume_id, processed_data, ranking_score) ==
    [resume_id |-> resume_id,
     processed_data |-> processed_data,
     ranking_score |-> ranking_score,
     skills_match |-> Get(processed_data, "skills_match", PyNone),
     experience_match |-> Get(processed_data, "education_relevance", 0),
     education_match |-> Get(processed_data, "education_relevance", 0),
     feedback |-> processed_data]

\* the row the routes build from what the service returned
ProcessedResume(resume_id, processed_data, ranking_score) ==
    [resume_id |-> resume_id,
     processed_data |-> processed_data,
     ranking_score |-> ranking_score,
     skills_match |-> Get(processed_data, "skills_match", PyNone),
     experience_match |-> Get(processed_data, "experience_relevance", 0),
     education_match |-> Get(processed_data, "education_relevance", 0),
     feedback |-> processed_data]

\* the Resume row of an upload
ResumeRow(status, candidate_name, candidate_email) ==
    [status |-> status, candidate_name |-> candidate_name, candidate_email |-> candidate_email]

\* what the upload form gives as candidate_name and candidate_email: both, or
\* neither (the default '')
FormContacts == {[name |-> "", email |-> ""], [name |-> "Form Name", email |-> "form@example.com"]}

\* db.session.commit() of the processed row: it succeeds, or the flush fails
\* (a value the database cannot bind, an integrity error, a lost connection)
CommitOutcomes == {"ok", "raise"}

\* `'contact_info' in processed_data and 'email' in processed_data['contact_info']`:
\* TypeError when contact_info is no container
ContactEmail(processed_data) ==
    IF "contact_info" \notin DOMAIN processed_data
    THEN [raises |-> FALSE, found |-> FALSE, email |-> ""]
    ELSE LET contact_info == processed_data.contact_info IN
         IF ~IsDict(contact_info) THEN [raises |-> TRUE, found |-> FALSE, email |-> ""]
         ELSE IF "email" \in DOMAIN contact_info
         THEN [raises |-> FALSE, found |-> TRUE, email |-> contact_info.email]
         ELSE [raises |-> FALSE, found |-> FALSE, email |-> ""]

\* upload_resume from the call of the service on; the Resume row was
\* committed with status 'processing' before.  [code, row_stored, resume]:
\* the status code of the response and what the database holds after it.
\*   - the service raised: the handler commits status 'error';
\*   - the row is added to the session and the status set, then the test of
\*     contact_info raises: the handler sets 'error' and its commit writes
\*     the pending row as well;
\*   - the commit fails: the session refuses the handler's commit until it is
\*     rolled back, the exception reaches the outer handler, which answers
\*     500, and the database keeps 'processing'.
UploadAfterService(form, processed_data, service_raised, commit) ==
    LET contact == IF form.email = "" THEN ContactEmail(processed_data)
                   ELSE [raises |-> FALSE, found |-> FALSE, email |-> ""]
    IN IF service_raised
       THEN [code |-> 200, row_stored |-> FALSE,
             resume |-> ResumeRow("error", form.name, form.email)]
       ELSE IF contact.raises
       THEN [code |-> 200, row_stored |-> TRUE,
             resume |-> ResumeRow("error",
                                  IF form.name = "" /\ "candidate_name" \in DOMAIN processed_data
                                  THEN processed_data.candidate_name ELSE form.name,
                                  form.email)]
       ELSE IF commit = "raise"
       THEN [code |-> 500, row_stored |-> FALSE,
             resume |-> ResumeRow("processing", form.name, form.email)]
       ELSE [code |-> 200, row_stored |-> TRUE,
             resume |-> ResumeRow("processed",
                                  IF form.name = "" /\ "candidate_name" \in DOMAIN processed_data
                                  THEN processed_data.candidate_name ELSE form.name,
                                  IF contact.found THEN contact.email ELSE form.email)]

\* upload_resume after the Resume row was committed: the call of
\* ai_service.process_resume(text_content, job_role) has returned or raised
UploadResumeStore ==
    /\ pc = "done"
    /\ entry = "process_resume"
    /\ \E form \in FormContacts, commit \in CommitOutcomes :
         \E u \in {UploadAfterService(form, ret, raised, commit)} :
         /\ db' = IF u.row_stored
                  THEN SetKey(db, UploadedResumeId, ProcessedResume(UploadedResumeId, ret, score))
                  ELSE db
         /\ resumes' = SetKey(resumes, UploadedResumeId, u.resume)
    /\ pc' = "stored"
    /\ UNCHANGED <<wrap, files, runs, entry, text, role, job_id, jd, cleaned, analysis, calls,
                   log, ret, score, path, raised, faults>>

\* reprocess_resume: Resume.query.get_or_404 fails when no resume was
\* uploaded; for an uploaded resume the argument resume.mime_type is read
\* from a Resume row, which has no such attribute.  Either exception is
\* caught by the route's handler, which answers 500 and stores nothing.
ReprocessResume ==
    /\ pc \in {"idle", "stored"}
    /\ entry' = "reprocess_resume"
    /\ path' = IF pc = "idle" THEN "not_found" ELSE "attribute_error"
    /\ ret' = [success |-> FALSE, error |-> path']
    /\ score' = 0
    /\ pc' = "done"
    /\ UNCHANGED <<wrap, files, runs, db, resumes, text, role, job_id, jd, cleaned, analysis, calls, log,
                   raised, faults>>

(***************************************************************************)
(* Two workers, each running analyze_resume and then                       *)
(* generate_job_description_match on its own resume, as process_resume     *)
(* does.  Both functions save what they handle under fixed file names in   *)
(* the working directory the workers share.  A step of a worker is the     *)
(* code between two writes.                                                *)
(***************************************************************************)
\* resumes long enough to pass the length tests
WorkerTexts == {<<"b99", "b50">>, <<"b50", "b99">>}

WorkerAnalyzeOutcomes ==
    {Raise, Reply(<<"w">>), Reply(ObjectText(<<"f_name">>)),
     Reply(ObjectText(AnalysisFieldOrder))}

WorkerMatchOutcomes ==
    {Raise, Reply(<<"w">>), Reply(ObjectText(<<"f_sum">>)),
     Reply(ObjectText(MatchFieldOrder))}

\* with open(name, "w") as f: f.write(content), done by worker w
Save(w, name, content, next_pc, run) ==
    /\ files' = SetKey(files, name, content)
    /\ runs' = [runs EXCEPT ![w] = [run EXCEPT !.pc = next_pc,
                                               !.wrote = SetKey(@, name, content)]]

\* the worker moves on and writes nothing
Skip(w, next_pc, run) ==
    /\ runs' = [runs EXCEPT ![w] = [run EXCEPT !.pc = next_pc]]
    /\ UNCHANGED files

WorkerFrame ==
    UNCHANGED <<pc, entry, text, role, job_id, jd, cleaned, analysis, calls, log,
                ret, score, path, raised, faults, wrap, db, resumes>>

\* a worker takes a resume
RunStart(w) ==
    /\ runs[w].pc = "idle"
    /\ \E t \in WorkerTexts : Skip(w, "an_text", [runs[w] EXCEPT !.text = t])
    /\ WorkerFrame

\* analyze_resume: resume_text.txt
AnalyzeSaveText(w) ==
    /\ runs[w].pc = "an_text"
    /\ Save(w, "resume_text.txt", runs[w].text, "an_call", runs[w])
    /\ WorkerFrame

\* analyze_resume: the model call and openai_response.txt
AnalyzeSaveResponse(w) ==
    /\ runs[w].pc = "an_call"
    /\ \E o \in WorkerAnalyzeOutcomes :
         IF o.kind = "raise" THEN Skip(w, "ma_call", runs[w])
         ELSE Save(w, "openai_response.txt", Strip(o.content), "an_parse",
                   [runs[w] EXCEPT !.analysis_text = Strip(o.content)])
    /\ WorkerFrame

\* analyze_resume: the parse and parsed_resume.json
AnalyzeSaveParsed(w) ==
    /\ runs[w].pc = "an_parse"
    /\ \E analysis_data \in {ExtractJson(runs[w].analysis_text)} :
         IF IsDecodeError(analysis_data) THEN Skip(w, "ma_call", runs[w])
         ELSE Save(w, "parsed_resume.json", analysis_data, "ma_call", runs[w])
    /\ WorkerFrame

\* generate_job_description_match: the model call and job_match_response.txt
MatchSaveResponse(w) ==
    /\ runs[w].pc = "ma_call"
    /\ \E o \in WorkerMatchOutcomes :
         IF o.kind = "raise" THEN Skip(w, "return", runs[w])
         ELSE Save(w, "job_match_response.txt", Strip(o.content), "ma_parse",
                   [runs[w] EXCEPT !.match_text = Strip(o.content)])
    /\ WorkerFrame

\* generate_job_description_match: the parse and job_match.json
MatchSaveParsed(w) ==
    /\ runs[w].pc = "ma_parse"
    /\ \E match_data \in {ExtractJson(runs[w].match_text)} :
         IF IsDecodeError(match_data) THEN Skip(w, "return", runs[w])
         ELSE Save(w, "job_match.json", match_data, "return", runs[w])
    /\ WorkerFrame

\* the run returns; seen is what its files hold at that moment
RunReturn(w) ==
    /\ runs[w].pc = "return"
    /\ Skip(w, "done", [runs[w] EXCEPT !.seen = [f \in DOMAIN runs[w].wrote |-> files[f]]])
    /\ WorkerFrame

NextWorkers ==
    \E w \in Workers :
        \/ RunStart(w)
        \/ AnalyzeSaveText(w)
        \/ AnalyzeSaveResponse(w)
        \/ AnalyzeSaveParsed(w)
        \/ MatchSaveResponse(w)
        \/ MatchSaveParsed(w)
        \/ RunReturn(w)

SpecWorkers == Init /\ [][NextWorkers]_vars

(***************************************************************************)
(* RankingService and the ranking routes (app/routes/ranking.py).  Scores  *)
(* with one decimal are kept in tenths.                                    *)
(***************************************************************************)
\* ProcessedResume.overall_ranking is written nowhere: the column stays NULL
NoRank == 0

\* ranking scores of stored rows, in tenths: an error record, the fallback's
\* mid-range score, a score of the model
RowScores == {0, 500, 850}

\* a row as an earlier upload stored it
StoredRow(id, s) ==
    ProcessedResume(id,
                    [overall_match_score |-> s, skills_match |-> <<>>,
                     experience_relevance |-> s, education_relevance |-> s],
                    s)

\* an earlier upload stored the row of the next resume
StoreRow ==
    /\ pc = "idle"
    /\ Cardinality(DOMAIN db) < MaxRows
    /\ \E s \in RowScores :
         db' = SetKey(db, Cardinality(DOMAIN db) + 1, StoredRow(Cardinality(DOMAIN db) + 1, s))
    /\ UNCHANGED <<wrap, files, runs, resumes, pc, entry, text, role, job_id, jd, cleaned,
                   analysis, calls, log, ret, score, path, raised, faults>>

\* the list rank_resumes is written to return
ranked_resumes ==
    <<[resume_id |-> 1, ranking_score |-> 925, overall_ranking |-> 1],
      [resume_id |-> 2, ranking_score |-> 873, overall_ranking |-> 2],
      [resume_id |-> 3, ranking_score |-> 786, overall_ranking |-> 3]>>

rank_resumes(job_posting_id, limit) == Take(ranked_resumes, limit)

Limits == {1, 2, 10}

RankReturn(fn, id, status, candidates) ==
    /\ pc = "idle"
    /\ pc' = "done"
    /\ entry' = fn
    /\ job_id' = id
    /\ ret' = [status |-> status, candidates |-> candidates]
    /\ UNCHANGED <<wrap, files, runs, db, resumes, text, role, jd, cleaned, analysis, calls, log,
                   score, path, raised, faults>>

CallRankResumes ==
    \E id \in JobIds, limit \in Limits :
        RankReturn("rank_resumes", id, 0, rank_resumes(id, limit))

\* get_rankings: RankingService has no rank_candidates; the AttributeError is
\* answered by the handler with 500
GetRankings ==
    \E id \in JobIds : RankReturn("get_rankings", id, 500, <<>>)

\* the rows of the resumes asked for, in the order of their ids
RECURSIVE RowsOf(_, _)
RowsOf(resume_ids, id) ==
    IF id > Cardinality(DOMAIN db) THEN <<>>
    ELSE (IF id \in resume_ids
          THEN <<[resume_id |-> id, ranking_score |-> db[id].ranking_score,
                  overall_ranking |-> NoRank]>>
          ELSE <<>>) \o RowsOf(resume_ids, id + 1)

\* list.sort(key=ranking_score, reverse=True): stable, largest first
RECURSIVE SortByScore(_)
SortByScore(rows) ==
    IF rows = <<>> THEN <<>>
    ELSE LET i == CHOOSE i \in 1..Len(rows) :
                     /\ \A j \in 1..Len(rows) : rows[j].ranking_score <= rows[i].ranking_score
                     /\ \A j \in 1..(i - 1) : rows[j].ranking_score < rows[i].ranking_score
         IN <<rows[i]>> \o SortByScore(SubSeq(rows, 1, i - 1) \o SubSeq(rows, i + 1, Len(rows)))

batch_compare(resume_ids, id) ==
    IF id \notin DOMAIN JobPostings THEN [status |-> 404, candidates |-> <<>>]
    ELSE [status |-> 200, candidates |-> SortByScore(RowsOf(resume_ids, 1))]

BatchCompare ==
    \E id \in JobIds, resume_ids \in SUBSET (1..MaxRows) :
        \E r \in {batch_compare(resume_ids, id)} :
            RankReturn("batch_compare", id, r.status, r.candidates)

NextRank == StoreRow \/ CallRankResumes \/ GetRankings \/ BatchCompare

SpecRank == Init /\ [][NextRank]_vars

(***************************************************************************)
(* admin_required (admin/__init__.py).  A token is named by what           *)
(* jwt.decode makes of it.                                                 *)
(***************************************************************************)
\* no header, cookie or query parameter of that name
Absent == "absent"

\* "": empty; "garbage": no JWT or a bad signature; "expired"; "no_admin_id":
\* a valid JWT without admin_id; "unknown_admin": admin_id of no Admin row;
\* "admin": admin_id of an Admin row
Tokens == {"", "garbage", "expired", "no_admin_id", "unknown_admin", "admin"}

Requests ==
    [authorization : {Absent} \cup Tokens,
     cookie : {Absent, "", "garbage", "admin"},
     query : {Absent, "admin"},
     accept_html : BOOLEAN,
     handler : {"returns", "raises"}]

\* the three places a token is looked for; "" stands for no token
RequestToken(req) ==
    IF req.authorization # Absent THEN req.authorization
    ELSE IF req.cookie \notin {Absent, ""} THEN req.cookie
    ELSE IF req.query \notin {Absent, ""} THEN req.query
    ELSE ""

\* mutant: the expiry of a token is not verified
JwtDecodeNoExpiry(token) ==
    CASE token = "garbage" -> "InvalidTokenError"
      [] token = "expired" -> "admin"
      [] OTHER -> token

\* jwt.decode(token, secret_key, algorithms=['HS256'])
JwtDecode(token) ==
    CASE token = "garbage" -> "InvalidTokenError"
      [] token = "expired" -> "ExpiredSignatureError"
      [] OTHER -> token

\* every refusal: a redirect to the login page for a web request, else 401
Refuse(req) == [status |-> IF req.accept_html THEN 302 ELSE 401, handler_ran |-> FALSE]

admin_required(req) ==
    LET token == RequestToken(req) IN
    IF token = "" THEN Refuse(req)
    ELSE LET data == JwtDecode(token) IN
         IF data \in {"ExpiredSignatureError", "InvalidTokenError", "no_admin_id",
                      "unknown_admin"}
         THEN Refuse(req)
         ELSE IF req.handler = "raises"
         THEN \* f(*args, **kwargs) is called inside the try block
              [status |-> IF req.accept_html THEN 302 ELSE 401, handler_ran |-> TRUE]
         ELSE [status |-> 200, handler_ran |-> TRUE]

ProtectedRequest ==
    /\ pc = "idle"
    /\ \E req \in Requests :
         \E r \in {admin_required(req)} :
            /\ log' = <<[fn |-> "admin_required", request |-> req, ret |-> r]>>
            /\ ret' = r
    /\ entry' = "admin_required"
    /\ pc' = "done"
    /\ UNCHANGED <<wrap, files, runs, db, resumes, text, role, job_id, jd, cleaned, analysis, calls,
                   score, path, raised, faults>>

NextAuth == ProtectedRequest

SpecAuth == Init /\ [][NextAuth]_vars

Next ==
    \/ CallMatch
    \/ CallAnalyze
    \/ CallCleanText
    \/ CallExtractSections
    \/ ProcessResumeStart
    \/ ProcessResumeAnalyze
    \/ ProcessResumePrompt
    \/ ProcessResumeMatch
    \/ ProcessResumeWithJobStart
    \/ WithJobPreprocess
    \/ WithJobAnalyze
    \/ WithJobMatch
    \/ UploadResumeStore
    \/ ReprocessResume

Spec == Init /\ [][Next]_vars

(***************************************************************************)
(* Claims                                                                  *)
(***************************************************************************)
MatchInvocations == {i \in 1..Len(log) : log[i].fn = "generate_job_description_match"}
ServiceEntries == {"process_resume", "process_resume_with_job"}
HasKey(r, k) == k \in DOMAIN r
IsZeroMatch(r) ==
    /\ IsDict(r)
    /\ HasKey(r, "error")
    /\ r.overall_match_score = 0
    /\ r.skills_match = <<>>
    /\ r.experience_relevance = 0
    /\ r.education_relevance = 0
IsMidRangeMatch(r) ==
    /\ IsDict(r)
    /\ HasKey(r, "error")
    /\ r.overall_match_score = 50
    /\ r.experience_relevance = 50
    /\ r.education_relevance = 50

\* C1: every call of generate_job_description_match whose resume text has
\* fewer than 100 characters (or is empty), or whose job description has fewer
\* than 50 characters (or is empty), returns the zero-score error record and
\* issues no model call.
Thm_C1 ==
    \A i \in MatchInvocations :
        (PyLen(log[i].resume_text) < 100 \/ PyLen(log[i].job_description) < 50)
        => IsZeroMatch(log[i].ret) /\ log[i].calls = <<>>

\* a 100-character resume with a 49-character job description was rejected
Wit_C1 ==
    \E i \in MatchInvocations :
        /\ PyLen(log[i].resume_text) >= 100
        /\ PyLen(log[i].job_description) = 49
        /\ log[i].path = "short_jd"
        /\ log[i].calls = <<>>

UnparsableReply(v) ==
    v.calls # <<>> /\ v.outcome.kind = "reply" /\ Unparsable(v.outcome.content)

Orig_C4 ==
    \A i \in MatchInvocations :
        /\ IsDict(log[i].ret)
        /\ \A k \in 1..Len(RequiredFields) : HasKey(log[i].ret, RequiredFields[k])

BareResult(v) ==
    IF v.fn = "generate_job_description_match"
    THEN generate_job_description_match(v.resume_text, v.job_description, Reply(wrap.body)).ret
    ELSE analyze_resume(v.resume_text, Reply(wrap.body)).ret

Contains(seq, tok) == \E i \in 1..Len(seq) : seq[i] = tok

\* C6 as stated: a reply that wraps a JSON object in a fence or in prose
\* parses to the result of the bare object, for every wrapping.
Orig_C6 ==
    \A i \in 1..Len(log) :
        wrap.body # <<>> => log[i].ret = BareResult(log[i])

\* C6 amended: a reply that wraps a JSON object in a fence or in prose parses
\* to the result of the bare object whenever the text before the object holds
\* no '{' and the text after it holds no '}'.
Thm_C6 ==
    \A i \in 1..Len(log) :
        (wrap.body # <<>> /\ ~Contains(wrap.pre, "{") /\ ~Contains(wrap.post, "}"))
        => log[i].ret = BareResult(log[i])

\* a fenced object was parsed
Wit_C6 ==
    \E i \in 1..Len(log) :
        /\ wrap.pre = <<"fence">>
        /\ wrap.post = <<"fence">>
        /\ wrap.body = <<"{", "f_oms", "f_sm", "f_er", "f_ed", "}">>
        /\ log[i].path = "parsed"
        /\ log[i].ret.overall_match_score = 85

Orig_C8 ==
    (entry \in ServiceEntries /\ StartsWithSentinel(text))
    => /\ calls = <<>>
       /\ pc = "done" => score = 0 /\ HasKey(ret, "error")

\* C9: for a text shorter than 100 characters either scoring entry point
\* issues no model call and returns ranking score 0 with an error record.
Orig_C9 ==
    (entry \in ServiceEntries /\ PyLen(text) < 100)
    => /\ calls = <<>>
       /\ pc = "done" => score = 0 /\ HasKey(ret, "error")

\* C10: within one invocation each of generate_job_description_match,
\* analyze_resume, clean_text and extract_sections issues at most one model
\* call, also when the call fails.
CallSites == {"match", "analyze", "clean", "sections"}
Thm_C10 ==
    /\ \A i \in 1..Len(log) : Len(log[i].calls) <= 1
    /\ \A site \in CallSites : Cardinality({i \in 1..Len(calls) : calls[i].site = site}) <= 1

\* a failed match call was issued exactly once
Wit_C10 ==
    \E i \in MatchInvocations :
        /\ log[i].outcome.kind = "raise"
        /\ Len(log[i].calls) = 1
        /\ pc = "done"

\* the positions of the vocabulary whose keyword occurs in the lower-cased text
Occurring(resume_text) ==
    {k \in 1..Len(common_skills) :
        IsSubstr(common_skills[k], StrLower(TextChars(resume_text)))}

\* the vocabulary position of a skills_match entry, 0 if it names no keyword
VocabularyIndex(e) ==
    IF \E k \in 1..Len(common_skills) : common_skills[k] = StrLower(e.skill)
    THEN CHOOSE k \in 1..Len(common_skills) : common_skills[k] = StrLower(e.skill)
    ELSE 0

\* C11: in every fallback result, each skills_match entry names a vocabulary
\* keyword that occurs in the lower-cased resume text, with match_percentage
\* 70 and level "Intermediate"; the list has at most 5 entries, and they are
\* the first occurring keywords in vocabulary order, whatever the reply was.
Thm_C11 ==
    \A i \in MatchInvocations :
        log[i].path = "fallback"
        => LET sm == log[i].ret.skills_match
               occ == Occurring(log[i].resume_text)
               idx == [n \in 1..Len(sm) |-> VocabularyIndex(sm[n])]
           IN /\ Len(sm) <= 5
              /\ Len(sm) = (IF Cardinality(occ) < 5 THEN Cardinality(occ) ELSE 5)
              /\ \A n \in 1..Len(sm) :
                    /\ idx[n] \in occ
                    /\ sm[n].match_percentage = 70
                    /\ sm[n].level = "Intermediate"
                    /\ Cardinality({k \in occ : k < idx[n]}) = n - 1

\* six keywords occur ("JAVASCRIPT", "NoSQL", "HTML/CSS") and five are listed
Wit_C11 ==
    \E i \in MatchInvocations :
        /\ log[i].path = "fallback"
        /\ Cardinality(Occurring(log[i].resume_text)) > 5
        /\ Len(log[i].ret.skills_match) = 5
        /\ log[i].ret.skills_match[1].skill = <<"J", "a", "v", "a">>
        /\ log[i].ret.skills_match[5].skill = <<"S", "q", "l">>

Extractions == {i \in 1..Len(log) : log[i].fn = "extract_text_from_file"}

\* a library call the extraction rested on raised, or the type is unsupported
ExtractionFailed(v) ==
    LET lib == v.lib
        NonePage(o) == o.kind = "return" /\ \E k \in 1..Len(o.value) : o.value[k] = PageNone
        BlankPages(o) == o.kind = "return" /\ \A k \in 1..Len(o.value) : o.value[k] = <<>>
        mt == IF v.impl = "utils" /\ v.mime_type = NoMime /\ lib.magic.kind = "return"
              THEN lib.magic.value ELSE v.mime_type
    IN IF v.impl = "services"
       THEN \/ mt \notin {PdfMime, DocxMime, TxtMime}
            \/ mt = PdfMime /\ (lib.pypdf2.kind = "raise" \/ NonePage(lib.pypdf2))
            \/ mt = PdfMime /\ BlankPages(lib.pypdf2) /\ lib.pdfplumber.kind = "raise"
            \/ mt = DocxMime /\ lib.docx.kind = "raise"
            \/ mt = TxtMime /\ lib.utf8.kind = "raise"
            \/ mt = TxtMime /\ lib.utf8.kind = "decode_error" /\ lib.latin1.kind = "raise"
       ELSE \/ mt \notin {PdfMime, DocxMime, MsWordMime, TxtMime}
            \/ mt = PdfMime /\ lib.pdfplumber.kind = "raise"
                            /\ (lib.pypdf2.kind = "raise" \/ NonePage(lib.pypdf2))
                            /\ lib.pdftotext.kind = "raise"
            \/ mt \in {DocxMime, MsWordMime} /\ lib.docx.kind = "raise"
            \/ mt = TxtMime /\ lib.utf8.kind = "raise"

\* C12: extract_text_from_file, of either extractor, never raises, and when
\* the file cannot be read, a library fails or the declared type is not
\* supported, the returned text begins with "ERROR EXTRACTING TEXT: ".
Thm_C12 ==
    /\ entry = "extract_text_from_file" => raised = FALSE
    /\ \A i \in Extractions :
          ExtractionFailed(log[i])
          => Len(log[i].ret) >= 2 /\ SubSeq(log[i].ret, 1, 2) = <<"ERR", "sp">>

\* the UTF-8 read hit a decode error and the Latin-1 read raised
Wit_C12 ==
    \E i \in Extractions :
        /\ log[i].impl = "services"
        /\ log[i].mime_type = TxtMime
        /\ log[i].lib.utf8.kind = "decode_error"
        /\ log[i].lib.latin1.kind = "raise"
        /\ log[i].ret = SentinelText

RECURSIVE AllRows(_)
\* the rows of the tables, in document order
AllRows(tables) == IF tables = <<>> THEN <<>> ELSE Head(tables) \o AllRows(Tail(tables))

RECURSIVE RowLines(_)
\* every row on a line of its own, its cell texts joined by " | "
RowLines(rows) ==
    IF rows = <<>> THEN <<>>
    ELSE <<"nl">> \o Join(Head(rows), <<"bar">>) \o RowLines(Tail(rows))

\* C15: for a DOCX document the extractor of the upload route returns the
\* non-empty paragraphs joined by a blank line, then every table row on its
\* own line, the cell texts joined by " | ".
Orig_C15 ==
    \A i \in Extractions :
        (log[i].impl = "services" /\ log[i].mime_type = DocxMime
            /\ log[i].lib.docx.kind = "return")
        => LET d == log[i].lib.docx.value IN
           log[i].ret = Join(NonBlank(d.paragraphs), <<"nl", "nl">>) \o RowLines(AllRows(d.tables))

AnalyzeInvocations == {i \in 1..Len(log) : log[i].fn = "analyze_resume"}

\* what the reply of an analysis call parses to
ParsedReply(inv) == ExtractJson(Strip(inv.outcome.content))

ErrorWithEmptyLists(r) ==
    /\ IsDict(r) /\ HasKey(r, "error")
    /\ HasKey(r, "skills") /\ r.skills = <<>>
    /\ HasKey(r, "experience") /\ r.experience = <<>>
    /\ HasKey(r, "education") /\ r.education = <<>>

\* a list entry whose field k is null: the score over the list fails
NullIn(d, list, k) ==
    /\ list \in DOMAIN d
    /\ \E j \in 1..Len(d[list]) : IsNone(Get(d[list][j], k, PyStr(<<>>)))

DerivedScoreFails(d) ==
    NullIn(d, "skills", "level") \/ NullIn(d, "experience", "duration")
    \/ NullIn(d, "education", "degree")

\* C13 as stated: every failure, a failing derived score included, gives an
\* error record with empty skills, experience and education.
Orig_C13 ==
    /\ entry = "analyze_resume" => raised = FALSE
    /\ \A i \in AnalyzeInvocations :
          (\/ log[i].outcome.kind = "raise"
           \/ ~IsDict(ParsedReply(log[i]))
           \/ DerivedScoreFails(ParsedReply(log[i])))
          => ErrorWithEmptyLists(log[i].ret)

\* C13 (amended): analyze_resume never raises; a failed call, an unparsable
\* reply and a reply that is no JSON object give an error record with empty
\* skills, experience and education; a derived score that fails is replaced
\* by its default (technical 50, experience 0, education 50) and the parsed
\* record is returned with its lists and without an error field.
Thm_C13 ==
    /\ entry = "analyze_resume" => raised = FALSE
    /\ \A i \in AnalyzeInvocations :
          LET d == ParsedReply(log[i])
              r == log[i].ret
          IN IF log[i].outcome.kind = "raise" \/ ~IsDict(d)
             THEN ErrorWithEmptyLists(r)
             ELSE /\ IsDict(r) /\ ~HasKey(r, "error")
                  /\ \A k \in DOMAIN d : HasKey(r, k) /\ r[k] = d[k]
                  /\ NullIn(d, "skills", "level") => r.technical_score = 500
                  /\ NullIn(d, "experience", "duration") => r.experience_years = 0
                  /\ NullIn(d, "education", "degree") => r.education_score = 50

\* a reply with a null skill level: the skills are kept, the score is 50.0
Wit_C13 ==
    /\ entry = "analyze_resume"
    /\ \E i \in AnalyzeInvocations :
          /\ NullIn(ParsedReply(log[i]), "skills", "level")
          /\ log[i].ret.skills # <<>>
          /\ log[i].ret.technical_score = 500
          /\ ~HasKey(log[i].ret, "error")

\* C14: whatever the model call does, extract_sections returns a mapping that
\* has the five keys education, experience, skills, projects and certifications.
Orig_C14 ==
    \A i \in 1..Len(log) :
        log[i].fn = "extract_sections"
        => /\ IsDict(log[i].ret)
           /\ \A j \in 1..Len(SectionNames) : HasKey(log[i].ret, SectionNames[j])

ScoreCalls(fn) == {i \in 1..Len(log) : log[i].fn = fn}

\* the level of every skill is a string, null or not given
LevelledSkills(ad) ==
    /\ IsDict(ad) /\ "skills" \in DOMAIN ad
    /\ \A k \in 1..Len(ad.skills) : IsDict(ad.skills[k])

\* 25/50/75/100 by the lower-cased level, 50 for any other or no level
ClaimedSkillScore(skill) ==
    LET l == Get(skill, "level", PyNone) IN
    IF IsStr(l) THEN level_scores(StrLower(l.str_value)) ELSE 50

RECURSIVE ClaimedSkillSum(_)
ClaimedSkillSum(skills) ==
    IF skills = <<>> THEN 0 ELSE ClaimedSkillScore(Head(skills)) + ClaimedSkillSum(Tail(skills))

\* C16: the technical score of a non-empty skill list is the mean of the
\* per-skill scores, each skill without a known level counting 50, rounded
\* to one decimal; an empty list gives 0.
Orig_C16 ==
    \A i \in ScoreCalls("_calculate_technical_score") :
        LET ad == log[i].analysis_data IN
        LevelledSkills(ad)
        => IF ad.skills = <<>> THEN log[i].ret = 0
           ELSE LET n == Len(ad.skills)
                    d == log[i].ret * n - 10 * ClaimedSkillSum(ad.skills)
                IN 2 * d <= n /\ -2 * d <= n

\* the duration of every entry is a string or not given
TimedExperience(ad) ==
    /\ IsDict(ad) /\ "experience" \in DOMAIN ad
    /\ \A k \in 1..Len(ad.experience) :
          /\ IsDict(ad.experience[k])
          /\ IsStr(Get(ad.experience[k], "duration", PyStr(<<>>)))

\* the first number written in a text, in tenths; 0 when there is none
FirstNumberTenths(cs) ==
    LET starts == {i \in 1..Len(cs) : cs[i] \in Digits} IN
    IF starts = {} THEN 0
    ELSE LET a == CHOOSE i \in starts : \A j \in starts : i <= j
             b == CHOOSE j \in a..Len(cs) :
                     /\ \A k \in a..j : cs[k] \in Digits
                     /\ j = Len(cs) \/ cs[j + 1] \notin Digits
             frac == b + 2 <= Len(cs) /\ cs[b + 1] = "." /\ cs[b + 2] \in Digits
         IN 10 * DigitsValue(SubSeq(cs, a, b)) + (IF frac THEN DigitValue(cs[b + 2]) ELSE 0)

RECURSIVE ClaimedYears(_)
ClaimedYears(experience) ==
    IF experience = <<>> THEN 0
    ELSE FirstNumberTenths(Get(Head(experience), "duration", PyStr(<<>>)).str_value)
         + ClaimedYears(Tail(experience))

\* C17: total experience is the sum of the first number in each entry's
\* duration text; a duration without a number adds nothing.
Orig_C17 ==
    \A i \in ScoreCalls("_calculate_total_experience") :
        LET ad == log[i].analysis_data IN
        TimedExperience(ad) => log[i].ret = ClaimedYears(ad.experience)

\* the degree of every entry is a string or not given
NamedDegrees(ad) ==
    /\ IsDict(ad) /\ "education" \in DOMAIN ad
    /\ \A k \in 1..Len(ad.education) :
          /\ IsDict(ad.education[k])
          /\ IsStr(Get(ad.education[k], "degree", PyStr(<<>>)))

\* the table scores of the keywords found in the entries' degree texts
ClaimedDegreeScores(education) ==
    {degree_scores[j] : j \in {j \in 1..Len(degree_levels) :
        \E k \in 1..Len(education) :
            IsSubstr(degree_levels[j],
                     StrLower(Get(education[k], "degree", PyStr(<<>>)).str_value))}}

\* C18: the education score is the largest table score over all entries and
\* all table keywords found in an entry's lower-cased degree; 0 without a hit.
Orig_C18 ==
    \A i \in ScoreCalls("_calculate_education_score") :
        LET ad == log[i].analysis_data
            found == ClaimedDegreeScores(ad.education)
        IN NamedDegrees(ad)
           => /\ found = {} => log[i].ret = 0
              /\ found # {} => log[i].ret \in found /\ \A x \in found : x <= log[i].ret

\* C19: concurrent runs share no state, so the artefacts a run produced are,
\* when the run returns, what the run wrote.
Orig_C19 ==
    \A w \in Workers : runs[w].pc = "done" => runs[w].seen = runs[w].wrote

\* the merge process_resume builds from the analysis and a match of the run
IsMergeOfRun(processed_data) ==
    \E i \in MatchInvocations :
        /\ IsDict(log[i].ret)
        /\ processed_data = SetKey(Merge(analysis, log[i].ret), "job_role", role)

\* C20 as stated: every stored row's ranking_score, experience_match and
\* education_match are the overall_match_score, experience_relevance and
\* education_relevance of its processed_data, which is the merge of the
\* analysis and the match.
Orig_C20 ==
    \A id \in DOMAIN db :
        LET row == db[id]
            pd == row.processed_data
        IN /\ HasKey(pd, "overall_match_score")
           /\ row.ranking_score = pd.overall_match_score
           /\ HasKey(pd, "experience_relevance")
           /\ row.experience_match = pd.experience_relevance
           /\ HasKey(pd, "education_relevance")
           /\ row.education_match = pd.education_relevance
           /\ IsMergeOfRun(pd)

\* C20 (amended): a stored row whose run reached the scoring step holds the
\* merge of the analysis and the match, and its three scores are the
\* overall_match_score, experience_relevance and education_relevance of that
\* merge; a row whose run failed earlier holds the run's error record, which
\* has none of these fields, and its three scores are 0.
Thm_C20 ==
    \A id \in DOMAIN db :
        LET row == db[id]
            pd == row.processed_data
        IN IF HasKey(pd, "overall_match_score")
           THEN /\ row.ranking_score = pd.overall_match_score
                /\ HasKey(pd, "experience_relevance")
                /\ row.experience_match = pd.experience_relevance
                /\ HasKey(pd, "education_relevance")
                /\ row.education_match = pd.education_relevance
                /\ IsMergeOfRun(pd)
           ELSE /\ HasKey(pd, "error")
                /\ ~HasKey(pd, "experience_relevance")
                /\ ~HasKey(pd, "education_relevance")
                /\ row.ranking_score = 0
                /\ row.experience_match = 0
                /\ row.education_match = 0

\* an upload whose text extraction failed: the error record is stored with
\* the three scores 0
Wit_C20 ==
    /\ pc = "stored"
    /\ UploadedResumeId \in DOMAIN db
    /\ path = "extraction_error"
    /\ HasKey(db[UploadedResumeId].processed_data, "error")
    /\ ~HasKey(db[UploadedResumeId].processed_data, "overall_match_score")
    /\ db[UploadedResumeId].ranking_score = 0
    /\ db[UploadedResumeId].experience_match = 0

RankingEntries == {"rank_resumes", "get_rankings", "batch_compare"}

\* the number of distinct scores in rows that are larger than s, plus one
DenseRank(rows, s) ==
    1 + Cardinality({rows[j].ranking_score : j \in {j \in 1..Len(rows) : rows[j].ranking_score > s}})

\* C21: ranking the candidates of an existing posting returns the stored
\* rows, largest score first, each with its dense rank.
Orig_C21 ==
    (pc = "done" /\ entry \in RankingEntries /\ job_id \in DOMAIN JobPostings)
    => LET rows == ret.candidates IN
       /\ ret.status \in {0, 200}
       /\ \A i \in 1..Len(rows) :
             /\ rows[i].resume_id \in DOMAIN db
             /\ rows[i].ranking_score = db[rows[i].resume_id].ranking_score
             /\ rows[i].overall_ranking = DenseRank(rows, rows[i].ranking_score)
       /\ \A i \in 1..(Len(rows) - 1) : rows[i].ranking_score >= rows[i + 1].ranking_score

ProtectedRequests == {i \in 1..Len(log) : log[i].fn = "admin_required"}

\* the request carries no token, or one that fails JWT verification
Unverified(req) == RequestToken(req) \in {"", "garbage", "expired"}

\* C22 as stated: a request without a verifiable token is answered 401 and
\* the handler does not run; the handler runs only for an existing admin.
Orig_C22 ==
    \A i \in ProtectedRequests :
        /\ Unverified(log[i].request)
           => log[i].ret.status = 401 /\ ~log[i].ret.handler_ran
        /\ log[i].ret.handler_ran => RequestToken(log[i].request) = "admin"

\* C22 (amended): a request without a verifiable token is answered 401, or
\* with a redirect to the login page when it accepts text/html, and the
\* handler does not run; the handler runs only for an existing admin.
Thm_C22 ==
    \A i \in ProtectedRequests :
        /\ Unverified(log[i].request)
           => /\ ~log[i].ret.handler_ran
              /\ log[i].ret.status = (IF log[i].request.accept_html THEN 302 ELSE 401)
        /\ log[i].ret.handler_ran => RequestToken(log[i].request) = "admin"

\* a browser request with an unverifiable token in its cookie is redirected
Wit_C22 ==
    \E i \in ProtectedRequests :
        /\ log[i].request.authorization = Absent
        /\ log[i].request.cookie = "garbage"
        /\ log[i].request.accept_html
        /\ log[i].ret.status = 302
        /\ ~log[i].ret.handler_ran

\* the invocations of the two functions that parse a reply of the model
ParsingInvocations ==
    {i \in 1..Len(log) : /\ log[i].fn \in {"generate_job_description_match", "analyze_resume"}
                         /\ log[i].outcome.kind = "reply"}

\* the reply was answered by the fallback (match) or the parse-error record
\* (analysis)
TookParseFailurePath(inv) == inv.path \in {"fallback", "parse_error"}

\* the stripped reply has a '{' with a '}' at or after it
HasSlice(t) == Find(t, "{") >= 1 /\ RFind(t, "}") >= Find(t, "{")
SliceOf(t) == SubSeq(t, Find(t, "{"), RFind(t, "}"))

Orig_C24 ==
    entry = "process_resume"
    => /\ \A i \in 1..Len(calls) :
             calls[i].site \in {"analyze", "match"}
             => \E j \in 1..(i - 1) : calls[j].site = "clean"
       /\ DOMAIN db # {} => pc = "stored"

\* the library read the file and some page has text that is not blank
HasPageText(o) ==
    /\ o.kind = "return"
    /\ \E k \in 1..Len(o.value) : o.value[k] # PageNone /\ ~IsBlank(o.value[k])

\* C25: for a PDF both libraries can read, the extractor the routes use
\* returns pdfplumber's text when it has any, else PyPDF2's text when it has
\* any, else the sentinel text.
Orig_C25 ==
    (entry = "extract_text_from_file" /\ pc = "done")
    => \A i \in Extractions :
          (log[i].impl = "services" /\ log[i].mime_type = PdfMime
              /\ log[i].lib.pdfplumber.kind = "return" /\ log[i].lib.pypdf2.kind = "return")
          => /\ HasPageText(log[i].lib.pdfplumber) => path = "pdfplumber"
             /\ (~HasPageText(log[i].lib.pdfplumber) /\ HasPageText(log[i].lib.pypdf2))
                => path = "PyPDF2"
             /\ (~HasPageText(log[i].lib.pdfplumber) /\ ~HasPageText(log[i].lib.pypdf2))
                => StartsWithSentinel(log[i].ret)

\* the calls of extract_sections whose model call failed or whose reply is
\* not JSON
SectionFallbackCases ==
    {i \in 1..Len(log) :
        /\ log[i].fn = "extract_sections"
        /\ \/ log[i].outcome.kind = "raise"
           \/ /\ log[i].outcome.kind = "reply"
              /\ IsDecodeError(SectionsLoads(log[i].outcome.content))}

\* C26: when the model call fails or its reply is not JSON, extract_sections
\* returns what the heading patterns find in the text: for each section the
\* content between the end of its first heading and the start of the next
\* heading.
Orig_C26 ==
    \A i \in SectionFallbackCases :
        log[i].ret = RegexSections(log[i].resume_text, "accepted")

\* the calls of the fallback analysis
FallbackCalls == {i \in 1..Len(log) : log[i].fn = "_generate_fallback_analysis"}

NotedSummaries ==
    {"fallback summary with alignment note", "fallback summary with skills and alignment note"}

\* the bucket the claim names: the first one, in the order tech, data,
\* marketing, HR, finance, whose count no other bucket exceeds
HighestBucket(counts) ==
    CHOOSE m \in 1..Len(counts) :
        /\ \A k \in 1..Len(counts) : counts[k] <= counts[m]
        /\ \A k \in 1..(m - 1) : counts[k] < counts[m]

\* the highest bucket counts more than 5 keywords and its label is not in the
\* job role of the description
AlignmentCase(resume_text, job_description) ==
    \E counts \in {BucketCounts(resume_text)} :
        \E m \in {HighestBucket(counts)} :
            /\ counts[m] > 5
            /\ ~IsSubstr(StrLower(categories[m].chars), StrLower(JobRoleOf(job_description)))

\* C27: the fallback summary carries the role-alignment note exactly when the
\* highest bucket (ties in the order tech, data, marketing, HR, finance)
\* counts more than 5 and its label does not occur, ignoring case, in the job
\* role taken from the job description.
Orig_C27 ==
    \A i \in FallbackCalls :
        log[i].ret.summary \in NotedSummaries
        <=> AlignmentCase(log[i].resume_text, log[i].job_description)

\* C27, amended: ... and the job description states a job role that is not
\* empty.
Thm_C27 ==
    \A i \in FallbackCalls :
        log[i].ret.summary \in NotedSummaries
        <=> /\ AlignmentCase(log[i].resume_text, log[i].job_description)
            /\ JobRoleOf(log[i].job_description) # <<>>

\* tech and data both count 6 and the job title holds "software development":
\* the tie goes to tech and no note is written; and a call with a note
Wit_C27 ==
    /\ FallbackCalls # {}
    /\ \E i \in FallbackCalls :
          /\ log[i].resume_text = <<"tech5", "data5", "both">>
          /\ log[i].job_description = <<"JobTitle:", "softdev">>
          /\ KeywordCount(tech_keywords, log[i].resume_text) = 6
          /\ KeywordCount(data_keywords, log[i].resume_text) = 6
          /\ log[i].ret.summary \notin NotedSummaries

ValidateCalls == {i \in 1..Len(log) : log[i].fn = "validate_date_formats"}
PreprocessResults == {i \in 1..Len(log) : log[i].fn = "preprocess_resume" /\ ~log[i].raised}

\* the tokens of a text that match a date pattern
DateTokens(pattern, resume_text) ==
    LET found == FindIter(pattern, TextChars(resume_text), 1) IN
    {found[k] : k \in 1..Len(found)}

Reported(r) == {r.list_items[k] : k \in 1..Len(r.list_items)}

MonthDays == <<31, 28, 31, 30, 31, 30, 31, 31, 30, 31, 30, 31>>

\* a year-month-day token names a day of the calendar: the calendar has no
\* year 0, and February has a 29th in the years divisible by 4, centuries
\* only when divisible by 400
RealDate(token) ==
    LET y == DigitsValue(SubSeq(token, 1, 4))
        m == DigitsValue(SubSeq(token, 6, 7))
        d == DigitsValue(SubSeq(token, 9, 10))
    IN /\ y > 0
       /\ m \in 1..12
       /\ d > 0
       /\ \/ d <= MonthDays[m]
          \/ m = 2 /\ d = 29 /\ y % 4 = 0 /\ (y % 100 = 0 => y % 400 = 0)

HasMonthOrSlashDate(resume_text) ==
    DateTokens("month_name", resume_text) \cup DateTokens("slash", resume_text) # {}

\* what validate_date_formats reports
ReportsAsClaimed ==
    \A i \in ValidateCalls :
        /\ DateTokens("month_name", log[i].resume_text) \subseteq Reported(log[i].ret)
        /\ DateTokens("slash", log[i].resume_text) \subseteq Reported(log[i].ret)
        /\ \A token \in DateTokens("iso", log[i].resume_text) :
              token \in Reported(log[i].ret) <=> ~RealDate(token)

\* C28: validate_date_formats reports every month-name and every NN/NN/NNNN
\* token, and a NNNN-NN-NN token exactly when it is no real date; so the
\* result of preprocess_resume is not valid for any text with a month-name or
\* slash date in it.
Orig_C28 ==
    /\ ReportsAsClaimed
    /\ \A i \in PreprocessResults :
          HasMonthOrSlashDate(log[i].resume_text) => ~log[i].ret.validation.is_valid

\* C28, amended: ... so the result of preprocess_resume is not valid whenever
\* its cleaned text has a month-name or slash date in it.
Thm_C28 ==
    /\ ReportsAsClaimed
    /\ \A i \in PreprocessResults :
          HasMonthOrSlashDate(log[i].ret.cleaned_text) => ~log[i].ret.validation.is_valid

\* a result with no missing field that is not valid because of the
\* month-name date of its cleaned text
Wit_C28 ==
    \E i \in PreprocessResults :
        /\ HasMonthOrSlashDate(log[i].ret.cleaned_text)
        /\ log[i].ret.validation.missing_fields = <<>>
        /\ log[i].ret.validation.invalid_dates # <<>>
        /\ ~log[i].ret.validation.is_valid

\* the responses of upload_resume after the Resume row was committed
UploadResponded == pc = "stored" /\ UploadedResumeId \in DOMAIN resumes

\* C29: when upload_resume responds, the resume it committed as 'processing'
\* is 'processed' and has its ProcessedResume row, or is 'error' and has
\* none.
Orig_C29 ==
    UploadResponded
    => \/ /\ resumes[UploadedResumeId].status = "processed"
          /\ UploadedResumeId \in DOMAIN db
       \/ /\ resumes[UploadedResumeId].status = "error"
          /\ UploadedResumeId \notin DOMAIN db

\* a run of process_resume or process_resume_with_job that returned the
\* combined record
CombinedRun == entry \in ServiceEntries /\ pc = "done" /\ path = "combined"

\* what generate_job_description_match returned to the run
MatchOfRun == log[Len(log)].ret

\* the keys process_resume_with_job sets from the posting after job_role
PostingKeys == {"job_title", "job_department", "job_id", "job_category", "job_category_id"}

\* the run combined the record itself; without a posting of that id
\* process_resume_with_job hands over to process_resume
PostingRun == entry = "process_resume_with_job" /\ job_id \in DOMAIN JobPostings

\* C30: the combined record holds, under every key of the analysis or of the
\* match, the match's value when the match has the key and the analysis's
\* otherwise, and the caller's job_role; so summary and error are the match's
\* when it has them, and the error of a failed analysis stays when the match
\* has none, whatever the score.
Thm_C30 ==
    CombinedRun
    => /\ log[Len(log)].fn = "generate_job_description_match"
       /\ DOMAIN analysis \cup DOMAIN MatchOfRun \cup {"job_role"} \subseteq DOMAIN ret
       /\ ~PostingRun
             => DOMAIN ret = DOMAIN analysis \cup DOMAIN MatchOfRun \cup {"job_role"}
       /\ PostingRun
             => DOMAIN ret = DOMAIN analysis \cup DOMAIN MatchOfRun \cup {"job_role"}
                             \cup PostingKeys
       /\ ret.job_role = role
       /\ \A k \in (DOMAIN MatchOfRun) \ ({"job_role"} \cup PostingKeys) :
             ret[k] = MatchOfRun[k]
       /\ \A k \in (DOMAIN analysis) \ (DOMAIN MatchOfRun \cup {"job_role"} \cup PostingKeys) :
             ret[k] = analysis[k]

\* the analysis failed and left its error and its own summary, the match
\* succeeded with a score of 85 and a summary: the record has the error of
\* the analysis and the summary of the match
Wit_C30 ==
    /\ CombinedRun
    /\ entry = "process_resume"
    /\ "error" \in DOMAIN analysis
    /\ "error" \notin DOMAIN MatchOfRun
    /\ "summary" \in DOMAIN analysis
    /\ "summary" \in DOMAIN MatchOfRun
    /\ analysis.summary # MatchOfRun.summary
    /\ score = 85
    /\ ret.error = analysis.error
    /\ ret.summary = MatchOfRun.summary

====
